---- MODULE Spec2Model ----
(***************************************************************************)
(* The Telegram bot of apps/bot: the SQLite Store (persistence.py) and the *)
(* update handlers (handlers.py) that run as coroutines of one event loop  *)
(* (bot.py, concurrent_updates(True)).                                     *)
(*                                                                         *)
(* Every Store function is synchronous: it opens a connection, runs its    *)
(* statements and commits, with no await inside, so one Store call (and    *)
(* any run of handler code between two awaits) is one atomic step.         *)
(***************************************************************************)
EXTENDS Integers, Sequences, FiniteSets, TLC

VARIABLES db, clock, last, turn, user_data, tasks, bg, calls, par, chunked

vars == <<db, clock, last, turn, user_data, tasks, bg, calls, par, chunked>>

-----------------------------------------------------------------------------
(* Bounds of the model *)

MaxSessions == 2
MaxProjects == 1
MaxTurns == 2
MaxCommandTurns == 1
MaxMessages == 3
MaxClock == 1
MaxLimit == 2
MaxListMessages == 2
MaxBgRuns == 2
MaxCalls == 2
\* the longest reply text, and the largest chunk_size besides the default
MaxTextLen == 3
MaxChunk == 2
\* the Sessions, and the Messages, of the timestamp check
MaxTimed == 1

(* Program constants *)

NULL == 0
HistoryLimit == 20
OutputLimit == 3500
\* seconds: run_command's default timeout and the one of a background run
DefaultTimeout == 60
BackgroundTimeout == 300

Users == {1, 2}
Chats == {1, 2}
ALLOWED_USERS == {1}
Pairs == Users \X Chats

Roles == {"user", "assistant", "system"}
SessionNames == {<<"name", 1>>}
AuthPairs == ALLOWED_USERS \X Chats
TextPairs == {<<1, 1>>}
Turns == 1..MaxTurns

(* PRAGMA foreign_keys of a connection made by get_db: sqlite3.connect     *)
(* leaves it at SQLite's default, off, and get_db never turns it on, so    *)
(* the FOREIGN KEY clauses of init_db are parsed but not enforced.         *)
foreign_keys == FALSE

-----------------------------------------------------------------------------
(* The state document of a Session.  A document is a Python value, written *)
(* as a tagged tuple; sessions.state holds its JSON text, written as the    *)
(* sequence of the text's tokens (the white space json.dumps puts after     *)
(* "," and ":" is no token).                                                *)

PyNone == <<"None">>
PyStr(x) == <<"str", x>>
PyInt(n) == <<"int", n>>
PyList(elems) == <<"list", elems>>
\* a dict is the sequence of its (key, value) items, in insertion order
PyDict(items) == <<"dict", items>>

Punct(c) == <<"punct", c>>
Digits == <<"0", "1", "2", "3", "4", "5", "6", "7", "8", "9">>
\* str(n) and int(s) of a one-digit number
IntToText(n) == Digits[n + 1]
TextToInt(x) == CHOOSE n \in 0..9 : Digits[n + 1] = x

RECURSIVE json_dumps(_)
RECURSIVE dumps_elems(_)
RECURSIVE dumps_items(_)

\* json.dumps(state)
json_dumps(v) ==
  CASE v[1] = "None" -> << <<"literal", "null">> >>
    [] v[1] = "str"  -> << <<"string", v[2]>> >>
    [] v[1] = "int"  -> << <<"number", IntToText(v[2])>> >>
    [] v[1] = "list" -> <<Punct("[")>> \o dumps_elems(v[2]) \o <<Punct("]")>>
    [] v[1] = "dict" -> <<Punct("{")>> \o dumps_items(v[2]) \o <<Punct("}")>>

dumps_elems(elems) ==
  IF Len(elems) = 0 THEN <<>>
  ELSE json_dumps(Head(elems))
         \o (IF Len(elems) = 1 THEN <<>>
             ELSE <<Punct(",")>> \o dumps_elems(Tail(elems)))

dumps_items(items) ==
  IF Len(items) = 0 THEN <<>>
  ELSE << <<"string", Head(items)[1]>>, Punct(":") >>
         \o json_dumps(Head(items)[2])
         \o (IF Len(items) = 1 THEN <<>>
             ELSE <<Punct(",")>> \o dumps_items(Tail(items)))

RECURSIVE parse_value(_)
RECURSIVE parse_elems(_, _)
RECURSIVE parse_items(_, _)

\* the decoder of json.loads: the value at the head of the tokens and the
\* tokens that follow it
parse_value(toks) ==
  LET tk == Head(toks)
  IN CASE tk[1] = "literal" -> [value |-> PyNone, rest |-> Tail(toks)]
       [] tk[1] = "string"  -> [value |-> PyStr(tk[2]), rest |-> Tail(toks)]
       [] tk[1] = "number"  ->
            [value |-> PyInt(TextToInt(tk[2])), rest |-> Tail(toks)]
       [] tk = Punct("[")   -> parse_elems(Tail(toks), <<>>)
       [] tk = Punct("{")   -> parse_items(Tail(toks), <<>>)

parse_elems(toks, acc) ==
  IF Head(toks) = Punct("]")
  THEN [value |-> PyList(acc), rest |-> Tail(toks)]
  ELSE IF Head(toks) = Punct(",") THEN parse_elems(Tail(toks), acc)
  ELSE LET r == parse_value(toks)
       IN parse_elems(r.rest, Append(acc, r.value))

\* toks[1] is a key and toks[2] the colon after it
parse_items(toks, acc) ==
  IF Head(toks) = Punct("}")
  THEN [value |-> PyDict(acc), rest |-> Tail(toks)]
  ELSE IF Head(toks) = Punct(",") THEN parse_items(Tail(toks), acc)
  ELSE LET r == parse_value(Tail(Tail(toks)))
       IN parse_items(r.rest, Append(acc, <<Head(toks)[2], r.value>>))

\* json.loads(text)
json_loads(text) == parse_value(text).value

\* documents a caller may hand to update_session_state
Documents ==
  { PyDict(<<>>),
    PyDict(<< <<"k", PyInt(1)>> >>),
    PyDict(<< <<"k", PyList(<<PyInt(1), PyStr("v"), PyNone>>)>> >>),
    PyDict(<< <<"a", PyDict(<< <<"b", PyDict(<<>>)>> >>)>>,
              <<"c", PyStr("")>> >>) }

\* the text '{}' of the column default and of create_session
EmptyStateText == <<Punct("{"), Punct("}")>>

\* Session(..., state=json.loads(row["state"]) if row["state"] else {}, ...)
Session(row) ==
  [row EXCEPT !.state = IF Len(@) = 0 THEN PyDict(<<>>) ELSE json_loads(@)]

-----------------------------------------------------------------------------
(* The Store: tables as sets of rows keyed by AUTOINCREMENT ids *)

EmptyDb ==
  [ sessions        |-> {},
    messages        |-> {},
    active_sessions |-> {},
    projects        |-> {},
    claude_sessions |-> {},
    sqlite_sequence |-> [sessions |-> 0, messages |-> 0, projects |-> 0] ]

SessionIds(d) == {s.id : s \in d.sessions}
ProjectIds(d) == {p.id : p \in d.projects}

\* Python's None as the result of a row lookup: a row whose id is NULL
None == [id |-> NULL]

\* SELECT ... FROM sessions WHERE id = ?  (None when there is no row)
get_session(d, sid) ==
  IF sid \in SessionIds(d)
  THEN Session(CHOOSE s \in d.sessions : s.id = sid)
  ELSE None

\* SELECT ... FROM projects WHERE id = ?
get_project(d, pid) ==
  IF pid \in ProjectIds(d)
  THEN CHOOSE p \in d.projects : p.id = pid
  ELSE None

\* sessions JOIN active_sessions WHERE a.user_id = ? AND a.chat_id = ?
ActiveJoin(d, u, c) ==
  {s \in d.sessions :
     \E a \in d.active_sessions :
        a.user_id = u /\ a.chat_id = c /\ a.session_id = s.id}

get_active_session(d, u, c) ==
  IF ActiveJoin(d, u, c) = {} THEN None
  ELSE Session(CHOOSE s \in ActiveJoin(d, u, c) : TRUE)

\* name defaults to "Session <utcnow>"; a name is a pair <<kind, n>>, and the
\* omitted name argument (Python's name=None) is the empty tuple
NoName == <<>>
DefaultName(ts) == <<"Session", ts>>

\* INSERT INTO sessions raises IntegrityError on a project_id without a
\* projects row, but only on a connection with foreign_keys on
create_session_raises(d, project_id) ==
  foreign_keys /\ project_id # NULL /\ project_id \notin ProjectIds(d)

\* variant: a table without AUTOINCREMENT: the new rowid is one more than
\* the largest id in the table
create_session_RowidReuse(d, u, c, name, project_id, ts) ==
  LET ids == SessionIds(d) \cup {0}
      id == (CHOOSE n \in ids : \A x \in ids : x <= n) + 1
      row == [ id |-> id, user_id |-> u, chat_id |-> c,
               name |-> IF name = NoName THEN DefaultName(ts) ELSE name,
               project_id |-> project_id, state |-> EmptyStateText,
               created_at |-> ts, updated_at |-> ts ]
  IN [d EXCEPT !.sessions = @ \cup {row},
               !.sqlite_sequence.sessions = @ + 1]

create_session(d, u, c, name, project_id, ts) ==
  LET id == d.sqlite_sequence.sessions + 1
      row == [ id |-> id, user_id |-> u, chat_id |-> c,
               name |-> IF name = NoName THEN DefaultName(ts) ELSE name,
               project_id |-> project_id, state |-> EmptyStateText,
               created_at |-> ts, updated_at |-> ts ]
  IN [d EXCEPT !.sessions = @ \cup {row},
               !.sqlite_sequence.sessions = id]

\* the row create_session returns
created_session(d, u, c, name, project_id, ts) ==
  get_session(create_session(d, u, c, name, project_id, ts),
              d.sqlite_sequence.sessions + 1)

\* SELECT id FROM sessions WHERE id = ? AND user_id = ? AND chat_id = ?
\* variant: the chat of the Session is not compared
OwnedBy_AnyChat(d, sid, u, c) ==
  \E s \in d.sessions : s.id = sid /\ s.user_id = u

OwnedBy(d, sid, u, c) ==
  \E s \in d.sessions : s.id = sid /\ s.user_id = u /\ s.chat_id = c

\* session ids the pointer rows of (u, c) hold
PointerIds(d, u, c) ==
  {a.session_id : a \in {b \in d.active_sessions :
                            b.user_id = u /\ b.chat_id = c}}

\* variant: a plain INSERT, without the ON CONFLICT clause and without the
\* PRIMARY KEY (user_id, chat_id) that makes it apply
UpsertActive_PlainInsert(rows, u, c, sid) ==
  rows \cup {[user_id |-> u, chat_id |-> c, session_id |-> sid]}

\* INSERT ... ON CONFLICT(user_id, chat_id) DO UPDATE SET session_id = ?
UpsertActive(rows, u, c, sid) ==
  {a \in rows : ~(a.user_id = u /\ a.chat_id = c)}
    \cup {[user_id |-> u, chat_id |-> c, session_id |-> sid]}

\* variant: the check asks only whether the session exists
set_active_session_raises_AnyOwner(d, u, c, sid) == sid \notin SessionIds(d)

\* raises ValueError when the session is not one of (u, c)
set_active_session_raises(d, u, c, sid) == ~OwnedBy(d, sid, u, c)

set_active_session(d, u, c, sid) ==
  IF set_active_session_raises(d, u, c, sid) THEN d
  ELSE [d EXCEPT !.active_sessions = UpsertActive(@, u, c, sid)]

\* variant: the new Session is created but not made the active one
get_or_create_active_session_NoPointer(d, u, c, ts) ==
  IF get_active_session(d, u, c).id # NULL THEN d
  ELSE create_session(d, u, c, NoName, NULL, ts)

get_or_create_active_session(d, u, c, ts) ==
  IF get_active_session(d, u, c).id # NULL THEN d
  ELSE set_active_session(create_session(d, u, c, NoName, NULL, ts), u, c,
                          d.sqlite_sequence.sessions + 1)

\* the Session get_or_create_active_session returns
active_or_created(d, u, c, ts) ==
  IF get_active_session(d, u, c).id # NULL THEN get_active_session(d, u, c)
  ELSE created_session(d, u, c, NoName, NULL, ts)

\* variant: the Messages of every Session go with the deleted one
delete_session_AllMessages(d, sid) ==
  [d EXCEPT !.sessions = {s \in @ : s.id # sid}, !.messages = {}]

\* DELETE FROM sessions WHERE id = ?  (the ON DELETE CASCADE of messages and
\* active_sessions acts only on a connection with foreign_keys on)
delete_session(d, sid) ==
  LET d1 == [d EXCEPT !.sessions = {s \in @ : s.id # sid}]
  IN IF foreign_keys
     THEN [d1 EXCEPT !.messages = {m \in @ : m.session_id # sid},
                     !.active_sessions = {a \in @ : a.session_id # sid}]
     ELSE d1

\* variant: the name alone is written
rename_session_NameOnly(d, sid, new_name, ts) ==
  [d EXCEPT !.sessions =
     {IF s.id = sid THEN [s EXCEPT !.name = new_name] ELSE s : s \in @}]

\* UPDATE sessions SET name = ?, updated_at = ? WHERE id = ?
rename_session(d, sid, new_name, ts) ==
  [d EXCEPT !.sessions =
     {IF s.id = sid THEN [s EXCEPT !.name = new_name, !.updated_at = ts]
      ELSE s : s \in @}]

\* variant: the new items are merged into the stored document
update_session_state_Merge(d, sid, state, ts) ==
  [d EXCEPT !.sessions =
     {IF s.id = sid
      THEN [s EXCEPT !.state =
                        json_dumps(PyDict(json_loads(@)[2] \o state[2])),
                     !.updated_at = ts]
      ELSE s : s \in @}]

\* UPDATE sessions SET state = ?, updated_at = ? WHERE id = ?
update_session_state(d, sid, state, ts) ==
  [d EXCEPT !.sessions =
     {IF s.id = sid
      THEN [s EXCEPT !.state = json_dumps(state), !.updated_at = ts]
      ELSE s : s \in @}]

\* variant: no role check in front of the INSERT
save_message_raises_NoRoleCheck(d, sid, role) ==
  foreign_keys /\ sid \notin SessionIds(d)

\* save_message raises: ValueError on a bad role; IntegrityError on a missing
\* parent row, but only on a connection with foreign_keys on
save_message_raises(d, sid, role) ==
  \/ role \notin {"user", "assistant"}
  \/ foreign_keys /\ sid \notin SessionIds(d)

save_message(d, sid, u, c, role, content, ts) ==
  IF save_message_raises(d, sid, role) THEN d
  ELSE LET id == d.sqlite_sequence.messages + 1
           row == [ id |-> id, session_id |-> sid, user_id |-> u,
                    chat_id |-> c, role |-> role, content |-> content,
                    timestamp |-> ts ]
       IN [d EXCEPT !.messages = @ \cup {row},
                    !.sqlite_sequence.messages = id,
                    !.sessions =
                       {IF s.id = sid THEN [s EXCEPT !.updated_at = ts]
                        ELSE s : s \in @}]

\* variant: the rows are not reversed after ORDER BY timestamp DESC LIMIT ?
get_session_messages_NewestFirst(d, sid, limit) ==
  LET mine == {m \in d.messages : m.session_id = sid}
      newer(m) == {x \in mine : x.timestamp > m.timestamp
                                \/ (x.timestamp = m.timestamp /\ x.id > m.id)}
      n == IF Cardinality(mine) <= limit THEN Cardinality(mine) ELSE limit
  IN [i \in 1..n |-> CHOOSE m \in mine : Cardinality(newer(m)) = i - 1]

\* ORDER BY timestamp: rows of one timestamp come in rowid order, the order
\* of idx_messages_session(session_id, timestamp)
MsgBefore(a, b) ==
  \/ a.timestamp < b.timestamp
  \/ a.timestamp = b.timestamp /\ a.id < b.id

RECURSIVE Chronological(_)
Chronological(S) ==
  IF S = {} THEN <<>>
  ELSE LET m == CHOOSE x \in S : \A y \in S \ {x} : MsgBefore(x, y)
       IN <<m>> \o Chronological(S \ {m})

\* ORDER BY timestamp DESC LIMIT ?, then reversed: the last `limit` messages
\* of the session, oldest first
get_session_messages(d, sid, limit) ==
  LET all == Chronological({m \in d.messages : m.session_id = sid})
      n   == Len(all)
  IN IF n <= limit THEN all ELSE SubSeq(all, n - limit + 1, n)

\* variant: MAX(m.timestamp) over the messages of every role
UserTimes_AnyRole(d, sid) ==
  {m.timestamp : m \in {x \in d.messages : x.session_id = sid}}

\* MAX(CASE WHEN m.role = 'user' THEN m.timestamp END) of the messages joined
\* to a session, as the set of those timestamps (empty: SQL NULL)
UserTimes(d, sid) ==
  {m.timestamp : m \in {x \in d.messages :
                            x.session_id = sid /\ x.role = "user"}}

Latest(times) == CHOOSE t \in times : \A x \in times : x <= t

\* ORDER BY last_user_message_time DESC NULLS LAST, s.created_at DESC; rows
\* the two keys do not tell apart come out in rowid order (GROUP BY s.id)
SessBefore(d, a, b) ==
  LET ta == UserTimes(d, a.id)
      tb == UserTimes(d, b.id)
  IN IF (ta = {}) # (tb = {}) THEN tb = {}
     ELSE IF ta # {} /\ Latest(ta) # Latest(tb) THEN Latest(ta) > Latest(tb)
     ELSE IF a.created_at # b.created_at THEN a.created_at > b.created_at
     ELSE a.id < b.id

RECURSIVE Ordered(_, _)
Ordered(d, S) ==
  IF S = {} THEN <<>>
  ELSE LET s == CHOOSE x \in S : \A y \in S \ {x} : SessBefore(d, x, y)
       IN <<s>> \o Ordered(d, S \ {s})

\* list_sessions(user_id, chat_id) without limit: the (Session,
\* message_count) pairs of the pair's sessions
list_sessions(d, u, c) ==
  LET rows == Ordered(d, {s \in d.sessions : s.user_id = u /\ s.chat_id = c})
  IN [i \in 1..Len(rows) |->
        [session |-> Session(rows[i]),
         message_count |->
            Cardinality({m \in d.messages : m.session_id = rows[i].id})]]

\* session.claude_session_id and update_claude_session_id: handlers.py reads
\* and writes a continuation token of the Session that persistence.py does
\* not define; it is kept here as rows (session id, token), one per Session
claude_session_id(d, sid) ==
  IF \E r \in d.claude_sessions : r.id = sid
  THEN (CHOOSE r \in d.claude_sessions : r.id = sid).token
  ELSE NULL

update_claude_session_id(d, sid, token) ==
  IF sid \in SessionIds(d)
  THEN [d EXCEPT !.claude_sessions =
          {r \in @ : r.id # sid} \cup {[id |-> sid, token |-> token]}]
  ELSE d

\* SELECT ... FROM projects WHERE user_id = ? AND chat_id = ?
list_projects(d, u, c) ==
  {p \in d.projects : p.user_id = u /\ p.chat_id = c}

create_project(d, u, c, name, working_dir, ts) ==
  LET id == d.sqlite_sequence.projects + 1
      row == [ id |-> id, user_id |-> u, chat_id |-> c, name |-> name,
               working_dir |-> working_dir,
               created_at |-> ts, updated_at |-> ts ]
  IN [d EXCEPT !.projects = @ \cup {row},
               !.sqlite_sequence.projects = id]

\* DELETE FROM projects WHERE id = ?  (ON DELETE SET NULL of
\* sessions.project_id acts only on a connection with foreign_keys on)
delete_project(d, pid) ==
  LET d1 == [d EXCEPT !.projects = {p \in @ : p.id # pid}]
  IN IF foreign_keys
     THEN [d1 EXCEPT !.sessions =
             {IF s.project_id = pid THEN [s EXCEPT !.project_id = NULL]
              ELSE s : s \in @}]
     ELSE d1

-----------------------------------------------------------------------------
(* Store calls made one at a time, in any order, by any caller: the Store's *)
(* own contract, with no handler in front of it.  last records the call     *)
(* that was just made, its arguments, whether it raised, the id of the row   *)
(* it returned and, for the calls on the active pointer, the session ids    *)
(* the pointer of (user, chat) held before the call; arg holds the role or  *)
(* the document a call was given.                                           *)

Call(op, u, c, id, raised, ret) ==
  [op |-> op, user_id |-> u, chat_id |-> c, id |-> id,
   raised |-> raised, ret |-> ret, reply |-> "", answered |-> FALSE,
   arg |-> <<>>,
   prev |-> IF op \in {"set_active_session", "get_or_create_active_session"}
            THEN PointerIds(db, u, c) ELSE {}]

\* a handle_message update that has not arrived yet
IdleTurn ==
  [pc |-> "idle", user_id |-> NULL, chat_id |-> NULL, session_id |-> NULL,
   claude_session_id |-> NULL, is_first_message |-> FALSE, error |-> ""]

\* context.user_data of a user without pending input
Unset == <<"unset">>
EmptyUserData ==
  [awaiting_rename |-> NULL, pending_session_name |-> Unset,
   awaiting_project_name |-> FALSE, awaiting_project_dir |-> Unset]

\* a string, as the text it was made from and its length in characters
Str(text, len) == [text |-> text, len |-> len]
\* s[:n]
Slice(s, n) == [s EXCEPT !.len = IF @ > n THEN n ELSE @]

\* the /bg updates and the background runs they start
BgRuns == 1..MaxBgRuns
\* str(uuid.uuid4())[:8]: eight hexadecimal digits of a random UUID
TaskIds == 1..MaxBgRuns
\* " ".join(context.args) of a /bg update
Commands == {"", "cmd"}

Task(id, command) ==
  [id |-> id, command |-> command, status |-> "pending",
   output |-> Str("", 0)]

\* no bot.send_message call yet
NoNotice == [sent |-> FALSE, chat_id |-> NULL, status |-> "",
             output |-> Str("", 0)]
\* a /bg update that has not arrived yet
\* handler is where the handle_background coroutine of the update is: "none",
\* "awaiting" (its reply), "returned", or "raised" (to the Application, which
\* calls error_handler); logged is the _logger.exception of the run
IdleBg == [pc |-> "idle", chat_id |-> NULL, task_id |-> NULL, command |-> "",
           notice |-> NoNotice, handler |-> "none", logged |-> FALSE]

\* the run_command calls
Calls == 1..MaxCalls
\* nothing returned yet
NoResult == <<Str("", 0), FALSE>>
\* a run_command call that has not been made yet; proc is the subprocess:
\* "none", "running", "exited" or "killed"
\* event is the log record it ends with
IdleCall == [pc |-> "idle", command |-> "", timeout |-> 0, elapsed |-> 0,
             proc |-> "none", event |-> "", result |-> NoResult]
\* no execute_parallel call yet
IdlePar == [pc |-> "idle", commands |-> <<>>, results |-> <<>>]

\* no reply_text_chunked call yet; sent is the reply_text calls it made
IdleChunked == [pc |-> "idle", text |-> <<>>, chunk_size |-> 0,
                escaped_text |-> <<>>, i |-> 0, sent |-> <<>>]

Init ==
  /\ chunked = IdleChunked
  /\ calls = [i \in Calls |-> IdleCall]
  /\ par = IdlePar
  /\ tasks = <<>>
  /\ bg = [r \in BgRuns |-> IdleBg]
  /\ db = EmptyDb
  /\ clock = 0
  /\ last = [op |-> "init", user_id |-> NULL, chat_id |-> NULL, id |-> NULL,
             raised |-> FALSE, ret |-> NULL, reply |-> "",
             answered |-> FALSE, arg |-> <<>>, prev |-> {}]
  /\ turn = [t \in Turns |-> IdleTurn]
  /\ user_data = [u \in Users |-> EmptyUserData]

StoreCreateSession(u, c, name, pid) ==
  /\ db.sqlite_sequence.sessions < MaxSessions
  /\ IF create_session_raises(db, pid)
     THEN /\ db' = db
          /\ last' = [Call("create_session", u, c, pid, TRUE, NULL)
                      EXCEPT !.arg = <<name>>]
     ELSE /\ db' = create_session(db, u, c, name, pid, clock)
          /\ last' = [Call("create_session", u, c, pid, FALSE,
                           created_session(db, u, c, name, pid, clock).id)
                      EXCEPT !.arg = <<name>>]
  /\ UNCHANGED <<clock, turn, user_data, tasks, bg, calls, par, chunked>>

StoreGetOrCreateActiveSession(u, c) ==
  /\ \/ get_active_session(db, u, c).id # NULL
     \/ db.sqlite_sequence.sessions < MaxSessions
  /\ db' = get_or_create_active_session(db, u, c, clock)
  /\ last' = Call("get_or_create_active_session", u, c, NULL, FALSE,
                  active_or_created(db, u, c, clock).id)
  /\ UNCHANGED <<clock, turn, user_data, tasks, bg, calls, par, chunked>>

StoreSetActiveSession(u, c, sid) ==
  /\ db' = set_active_session(db, u, c, sid)
  /\ last' = Call("set_active_session", u, c, sid,
                  set_active_session_raises(db, u, c, sid), NULL)
  /\ UNCHANGED <<clock, turn, user_data, tasks, bg, calls, par, chunked>>

StoreDeleteSession(sid) ==
  /\ db' = delete_session(db, sid)
  /\ last' = Call("delete_session", NULL, NULL, sid, FALSE, NULL)
  /\ UNCHANGED <<clock, turn, user_data, tasks, bg, calls, par, chunked>>

StoreCreateProject(u, c) ==
  /\ db.sqlite_sequence.projects < MaxProjects
  /\ db' = create_project(db, u, c, <<"project", 1>>, <<"dir", 1>>, clock)
  /\ last' = Call("create_project", u, c, NULL, FALSE,
                  db.sqlite_sequence.projects + 1)
  /\ UNCHANGED <<clock, turn, user_data, tasks, bg, calls, par, chunked>>

StoreDeleteProject(pid) ==
  /\ db' = delete_project(db, pid)
  /\ last' = Call("delete_project", NULL, NULL, pid, FALSE, NULL)
  /\ UNCHANGED <<clock, turn, user_data, tasks, bg, calls, par, chunked>>

StoreUpdateSessionState(sid, state) ==
  /\ db' = update_session_state(db, sid, state, clock)
  /\ last' = [Call("update_session_state", NULL, NULL, sid, FALSE, NULL)
                EXCEPT !.arg = <<state>>]
  /\ UNCHANGED <<clock, turn, user_data, tasks, bg, calls, par, chunked>>

\* datetime.utcnow() moves on between two Store calls
StoreRenameSession(sid, new_name) ==
  /\ db' = rename_session(db, sid, new_name, clock)
  /\ last' = [Call("rename_session", NULL, NULL, sid, FALSE, NULL)
                EXCEPT !.arg = <<new_name>>]
  /\ UNCHANGED <<clock, turn, user_data, tasks, bg, calls, par, chunked>>

Tick ==
  /\ clock < MaxClock
  /\ clock' = clock + 1
  /\ UNCHANGED <<db, last, turn, user_data, tasks, bg, calls, par, chunked>>

\* the texts of the Store's callers are all alike
StoreSaveMessage(sid, u, c, role) ==
  /\ db.sqlite_sequence.messages < MaxMessages
  /\ db' = save_message(db, sid, u, c, role, <<"text", 0>>, clock)
  /\ last' = [Call("save_message", u, c, sid,
                    save_message_raises(db, sid, role),
                    IF save_message_raises(db, sid, role) THEN NULL
                    ELSE db.sqlite_sequence.messages + 1)
                EXCEPT !.arg = <<role>>]
  /\ UNCHANGED <<clock, turn, user_data, tasks, bg, calls, par, chunked>>

\* a save_message call of which last keeps no record
SaveMessage(sid, u, c, role) ==
  /\ db.sqlite_sequence.messages < MaxMessages
  /\ db' = save_message(db, sid, u, c, role, <<"text", 0>>, clock)
  /\ UNCHANGED <<clock, last, turn, user_data, tasks, bg, calls, par, chunked>>

StoreGetSessionMessages(sid, limit) ==
  /\ last' = [Call("get_session_messages", NULL, NULL, sid, FALSE,
                    get_session_messages(db, sid, limit))
                EXCEPT !.arg = <<limit>>]
  /\ UNCHANGED <<db, clock, turn, user_data, tasks, bg, calls, par, chunked>>

StoreListSessions(u, c) ==
  /\ last' = Call("list_sessions", u, c, NULL, FALSE, list_sessions(db, u, c))
  /\ UNCHANGED <<db, clock, turn, user_data, tasks, bg, calls, par, chunked>>

\* sessions and the active pointer
StoreNext ==
  \/ \E p \in AuthPairs, name \in SessionNames \cup {NoName} :
       StoreCreateSession(p[1], p[2], name, NULL)
  \/ \E p \in AuthPairs : StoreGetOrCreateActiveSession(p[1], p[2])
  \/ \E p \in AuthPairs, sid \in 1..MaxSessions :
       StoreSetActiveSession(p[1], p[2], sid)
  \/ \E sid \in 1..MaxSessions : StoreDeleteSession(sid)

StoreSpec == Init /\ [][StoreNext]_vars

\* create_session beside the calls that write the other tables
CreateNext ==
  \/ \E p \in TextPairs, name \in SessionNames \cup {NoName} :
       StoreCreateSession(p[1], p[2], name, NULL)
  \/ \E p \in TextPairs, sid \in 1..MaxSessions :
       StoreSetActiveSession(p[1], p[2], sid)
  \/ \E sid \in 1..MaxSessions : StoreDeleteSession(sid)
  \/ \E p \in TextPairs, sid \in SessionIds(db) :
       /\ db.sqlite_sequence.messages < MaxListMessages
       /\ StoreSaveMessage(sid, p[1], p[2], "user")

CreateSpec == Init /\ [][CreateNext]_vars

\* projects and the sessions that reference them
ProjectNext ==
  \/ \E p \in AuthPairs : StoreCreateProject(p[1], p[2])
  \/ \E p \in AuthPairs, pid \in 0..MaxProjects :
       StoreCreateSession(p[1], p[2], NoName, pid)
  \/ \E pid \in 1..MaxProjects : StoreDeleteProject(pid)
  \/ \E sid \in 1..MaxSessions : StoreDeleteSession(sid)

ProjectSpec == Init /\ [][ProjectNext]_vars

\* save_message calls with any role and for any session id
SaveNext ==
  \/ \E p \in TextPairs : StoreCreateSession(p[1], p[2], NoName, NULL)
  \/ \E sid \in 1..MaxSessions, p \in TextPairs, role \in Roles :
       StoreSaveMessage(sid, p[1], p[2], role)

SaveSpec == Init /\ [][SaveNext]_vars

\* the user messages of sessions, saved and read back as the clock moves on
MessageNext ==
  \/ Tick
  \/ \E p \in TextPairs : StoreCreateSession(p[1], p[2], NoName, NULL)
  \/ \E sid \in SessionIds(db), p \in TextPairs :
       SaveMessage(sid, p[1], p[2], "user")
  \/ \E sid \in 1..MaxSessions, limit \in 1..MaxLimit :
       StoreGetSessionMessages(sid, limit)

MessageSpec == Init /\ [][MessageNext]_vars

\* sessions with the messages of both roles, listed as the clock moves on
ListNext ==
  \/ Tick
  \/ \E p \in AuthPairs : StoreCreateSession(p[1], p[2], NoName, NULL)
  \/ \E sid \in SessionIds(db), p \in TextPairs,
         role \in {"user", "assistant"} :
       /\ db.sqlite_sequence.messages < MaxListMessages
       /\ SaveMessage(sid, p[1], p[2], role)
  \/ \E p \in AuthPairs : StoreListSessions(p[1], p[2])

ListSpec == Init /\ [][ListNext]_vars

\* sessions and their state documents
StateNext ==
  \/ \E p \in AuthPairs : StoreCreateSession(p[1], p[2], NoName, NULL)
  \/ \E sid \in 1..MaxSessions, state \in Documents :
       StoreUpdateSessionState(sid, state)

StateSpec == Init /\ [][StateNext]_vars

\* the writes to a Session, at any time after its creation
TimeNext ==
  \/ Tick
  \/ \E p \in TextPairs :
       /\ db.sqlite_sequence.sessions < MaxTimed
       /\ StoreCreateSession(p[1], p[2], NoName, NULL)
  \/ \E sid \in 1..MaxTimed, new_name \in SessionNames :
       StoreRenameSession(sid, new_name)
  \/ \E sid \in 1..MaxTimed :
       StoreUpdateSessionState(sid, PyDict(<< <<"k", PyInt(1)>> >>))
  \/ \E p \in TextPairs, sid \in 1..MaxTimed,
         role \in {"user", "assistant"} :
       /\ db.sqlite_sequence.messages < MaxTimed
       /\ StoreSaveMessage(sid, p[1], p[2], role)

TimeSpec == Init /\ [][TimeNext]_vars

-----------------------------------------------------------------------------
(* The update handlers of handlers.py that bot.py registers.  A command      *)
(* handler makes its Store calls between two awaits, so it is one step: a    *)
(* function of the Store and of context.user_data to their new values, the   *)
(* id of the Session it created and the reply it sends.                      *)

Result(d, ud, ret, reply) ==
  [db |-> d, user_data |-> ud, ret |-> ret, reply |-> reply,
   answered |-> FALSE]

\* handle_newsession: /newsession [name]
\* variant: the Session is created before the project is chosen
handle_newsession_CreatesBeforeChoice(d, ud, u, c, name, ts) ==
  IF u \notin ALLOWED_USERS THEN Result(d, ud, NULL, "")
  ELSE LET session == created_session(d, u, c, name, NULL, ts)
       IN Result(set_active_session(create_session(d, u, c, name, NULL, ts),
                                    u, c, session.id),
                 [ud EXCEPT ![u].pending_session_name = name], session.id,
                 "Select a project for the new session")

handle_newsession(d, ud, u, c, name, ts) ==
  IF u \notin ALLOWED_USERS THEN Result(d, ud, NULL, "")
  ELSE IF list_projects(d, u, c) = {}
  THEN LET session == created_session(d, u, c, name, NULL, ts)
       IN Result(set_active_session(create_session(d, u, c, name, NULL, ts),
                                    u, c, session.id),
                 ud, session.id, "Created and switched to new session")
  ELSE Result(d, [ud EXCEPT ![u].pending_session_name = name], NULL,
              "Select a project for the new session")

\* handle_switch: /switch <session_id>
handle_switch(d, ud, u, c, sid) ==
  IF u \notin ALLOWED_USERS THEN Result(d, ud, NULL, "")
  ELSE IF ~OwnedBy(d, sid, u, c)
  THEN Result(d, ud, NULL, "Session not found")
  ELSE IF set_active_session_raises(d, u, c, sid)
  THEN Result(d, ud, NULL, "Error")
  ELSE Result(set_active_session(d, u, c, sid), ud, NULL,
              "Switched to session")

\* handle_rename: /rename
handle_rename(d, ud, u, c) ==
  IF u \notin ALLOWED_USERS THEN Result(d, ud, NULL, "")
  ELSE IF get_active_session(d, u, c).id = NULL
  THEN Result(d, ud, NULL, "No active session found")
  ELSE Result(d, [ud EXCEPT ![u].awaiting_rename =
                                get_active_session(d, u, c).id],
              NULL, "What would you like to rename it to?")

\* variant: the handler skips the active check
IsActiveSession_Never(d, u, c, sid) == FALSE

\* active_session and active_session.id == session_id
IsActiveSession(d, u, c, sid) == get_active_session(d, u, c).id = sid

\* handle_delsession: /delsession <session_id>
\* variant: the active Session may be deleted
handle_delsession_ActiveToo(d, ud, u, c, sid) ==
  IF u \notin ALLOWED_USERS THEN Result(d, ud, NULL, "")
  ELSE IF ~OwnedBy(d, sid, u, c)
  THEN Result(d, ud, NULL, "Session not found")
  ELSE Result(delete_session(d, sid), ud, NULL, "Deleted session")

handle_delsession(d, ud, u, c, sid) ==
  IF u \notin ALLOWED_USERS THEN Result(d, ud, NULL, "")
  ELSE IF ~OwnedBy(d, sid, u, c)
  THEN Result(d, ud, NULL, "Session not found")
  ELSE IF IsActiveSession(d, u, c, sid)
  THEN Result(d, ud, NULL, "Cannot delete active session")
  ELSE Result(delete_session(d, sid), ud, NULL, "Deleted session")

\* build_sessions_keyboard(user_id, chat_id, page)[1]: a page holds ten
\* Sessions, so all of them are on page 0
sessions_text(d, u, c, page) ==
  IF page > 0 \/ list_sessions(d, u, c) = <<>>
  THEN "No sessions found." ELSE "Your sessions"

\* handle_sessions: /sessions
handle_sessions(d, ud, u, c) ==
  IF u \notin ALLOWED_USERS THEN Result(d, ud, NULL, "")
  ELSE Result(d, ud, NULL, sessions_text(d, u, c, 0))

\* handle_status: /status
handle_status(d, ud, u, registry) ==
  IF u \notin ALLOWED_USERS THEN Result(d, ud, NULL, "")
  ELSE IF DOMAIN registry = {} THEN Result(d, ud, NULL, "No tasks tracked.")
  ELSE Result(d, ud, NULL, "tasks")

\* handle_start and handle_help: /start, /help
handle_start(d, ud, u) ==
  IF u \notin ALLOWED_USERS THEN Result(d, ud, NULL, "")
  ELSE Result(d, ud, NULL, "Hi!")

handle_help(d, ud, u) ==
  IF u \notin ALLOWED_USERS THEN Result(d, ud, NULL, "")
  ELSE Result(d, ud, NULL, "Usage")

\* handle_newproject: /newproject
handle_newproject(d, ud, u) ==
  IF u \notin ALLOWED_USERS THEN Result(d, ud, NULL, "")
  ELSE Result(d, [ud EXCEPT ![u].awaiting_project_name = TRUE], NULL,
              "Enter the project name:")

\* handle_projects: /projects
handle_projects(d, ud, u, c) ==
  IF u \notin ALLOWED_USERS THEN Result(d, ud, NULL, "")
  ELSE IF list_projects(d, u, c) = {}
  THEN Result(d, ud, NULL, "No projects found")
  ELSE Result(d, ud, NULL, "Your projects")

\* handle_delproject: /delproject <project_id>
handle_delproject(d, ud, u, c, pid) ==
  IF u \notin ALLOWED_USERS THEN Result(d, ud, NULL, "")
  ELSE IF \A p \in list_projects(d, u, c) : p.id # pid
  THEN Result(d, ud, NULL, "Project not found")
  ELSE Result(delete_project(d, pid), ud, NULL, "Deleted project")

\* the payloads of the inline buttons: session_page:<page>,
\* session_switch:<session_id>, newses_project:<project_id> or :none (NULL)
CallbackData ==
  ({"session_page"} \X {0, 1})
    \cup ({"session_switch"} \X (1..MaxSessions))
    \cup ({"newses_project"} \X ({NULL} \cup (1..MaxProjects)))

\* the body of handle_session_callback after the allow-list check; the reply
\* is the text query.edit_message_text is called with
session_callback(d, ud, u, c, data, ts) ==
  IF data[1] = "session_page"
  THEN Result(d, ud, NULL, sessions_text(d, u, c, data[2]))
  ELSE IF data[1] = "session_switch"
  THEN IF ~OwnedBy(d, data[2], u, c)
       THEN Result(d, ud, NULL, "Session not found")
       ELSE Result(set_active_session(d, u, c, data[2]), ud, NULL,
                   "Switched to")
  ELSE LET pending == ud[u].pending_session_name
           session_name == IF pending = Unset THEN NoName ELSE pending
           id == d.sqlite_sequence.sessions + 1
       IN IF create_session_raises(d, data[2])
          THEN Result(d, ud, NULL, "Error")
          ELSE Result(set_active_session(
                        create_session(d, u, c, session_name, data[2], ts),
                        u, c, id),
                      [ud EXCEPT ![u].pending_session_name = Unset], id,
                      "Created and switched to new session")

\* handle_session_callback: await query.answer() comes first, the allow-list
\* check after it; the body reads the Store only after that await
handle_session_callback(d, ud, u, c, data, ts) ==
  [(IF u \notin ALLOWED_USERS THEN Result(d, ud, NULL, "")
    ELSE session_callback(d, ud, u, c, data, ts))
   EXCEPT !.answered = TRUE]

\* a command step; last records the command, its argument and its reply
Command(op, u, c, id, r) ==
  /\ db' = r.db
  /\ user_data' = r.user_data
  /\ last' = [op |-> op, user_id |-> u, chat_id |-> c, id |-> id,
              raised |-> FALSE, ret |-> r.ret, reply |-> r.reply,
              answered |-> r.answered,
              arg |-> <<>>, prev |-> PointerIds(db, u, c)]
  /\ UNCHANGED <<clock, turn, tasks, bg, calls, par, chunked>>

\* a command step whose reply is not recorded
Unrecorded(r) ==
  /\ db' = r.db
  /\ user_data' = r.user_data
  /\ UNCHANGED <<clock, last, turn, tasks, bg, calls, par, chunked>>

HandleNewsession(u, c, name) ==
  /\ db.sqlite_sequence.sessions < MaxSessions
  /\ Command("newsession", u, c, NULL,
             handle_newsession(db, user_data, u, c, name, clock))

HandleSwitch(u, c, sid) ==
  Command("switch", u, c, sid, handle_switch(db, user_data, u, c, sid))

HandleRename(u, c) ==
  Command("rename", u, c, NULL, handle_rename(db, user_data, u, c))

HandleDelsession(u, c, sid) ==
  Command("delsession", u, c, sid,
          handle_delsession(db, user_data, u, c, sid))

HandleSessions(u, c) ==
  Command("sessions", u, c, NULL, handle_sessions(db, user_data, u, c))

HandleStatus(u, c) ==
  Command("status", u, c, NULL, handle_status(db, user_data, u, tasks))

HandleStart(u, c) ==
  Command("start", u, c, NULL, handle_start(db, user_data, u))

HandleHelp(u, c) ==
  Command("help", u, c, NULL, handle_help(db, user_data, u))

HandleNewproject(u, c) ==
  Command("newproject", u, c, NULL, handle_newproject(db, user_data, u))

HandleProjects(u, c) ==
  Command("projects", u, c, NULL, handle_projects(db, user_data, u, c))

HandleDelproject(u, c, pid) ==
  Command("delproject", u, c, pid,
          handle_delproject(db, user_data, u, c, pid))

HandleSessionCallback(u, c, data) ==
  /\ data[1] = "newses_project" => db.sqlite_sequence.sessions < MaxSessions
  /\ Command(data[1], u, c, data[2],
             handle_session_callback(db, user_data, u, c, data, clock))

Newsession(u, c, name) ==
  /\ db.sqlite_sequence.sessions < MaxSessions
  /\ Unrecorded(handle_newsession(db, user_data, u, c, name, clock))

Switch(u, c, sid) == Unrecorded(handle_switch(db, user_data, u, c, sid))

Rename(u, c) == Unrecorded(handle_rename(db, user_data, u, c))

Delsession(u, c, sid) ==
  Unrecorded(handle_delsession(db, user_data, u, c, sid))

-----------------------------------------------------------------------------
(* handle_message awaits the Telegram calls, the title and the model; a     *)
(* turn is a process whose pc is the await it is suspended at.              *)

\* what the text of an update begins with: the first update is plain text,
\* the next two begin with run: and with cmd:.  handle_message never looks
\* at the beginning of the text, and parse_commands and execute_parallel
\* have no caller.
Prefixes == <<"", "run:", "cmd:">>
Prefix(t) == Prefixes[((t - 1) % Len(Prefixes)) + 1]
\* the text of an update: one text per turn
user_input(t) == <<Prefix(t), "text", t>>
\* what generate_session_title and llm_reply return for it
new_title(t) == <<"title", t>>
reply_text(t) == <<"reply", t>>
\* the updated_state document llm_reply returns beside the reply
updated_state(t) == PyDict(<< <<"turn", PyInt(t)>> >>)
\* the continuation tokens llm_reply may return (NULL: none)
Tokens == {NULL, 1}

\* str(Path(working_dir).expanduser().resolve()): the absolute path
resolve(working_dir) == <<"abs", working_dir>>

\* the coroutine has returned: its locals are gone
Returned(r, pc, error) ==
  [r EXCEPT !.pc = pc, !.error = error,
            !.claude_session_id = NULL, !.is_first_message = FALSE]

\* variant: a pending /renamesession renames the Session active now
MsgStart_RenamesActive(t, u, c) ==
  /\ turn[t].pc = "idle"
  /\ \A t0 \in Turns : t0 < t => turn[t0].pc # "idle"
  /\ LET r == [turn[t] EXCEPT !.user_id = u, !.chat_id = c]
     IN IF u \notin ALLOWED_USERS
        THEN /\ turn' = [turn EXCEPT ![t] = Returned(r, "dropped", "")]
             /\ UNCHANGED <<db, user_data>>
        ELSE IF user_data[u].awaiting_rename # NULL
        THEN LET session_id == IF get_active_session(db, u, c).id # NULL
                               THEN get_active_session(db, u, c).id
                               ELSE user_data[u].awaiting_rename
             IN /\ user_data' =
                     [user_data EXCEPT ![u].awaiting_rename = NULL]
                /\ IF ~OwnedBy(db, session_id, u, c)
                   THEN /\ UNCHANGED db
                        /\ turn' = [turn EXCEPT ![t] =
                                      Returned(r, "rename_gone", "")]
                   ELSE /\ db' = rename_session(db, session_id,
                                                user_input(t), clock)
                        /\ turn' = [turn EXCEPT ![t] =
                              Returned([r EXCEPT !.session_id = session_id],
                                       "renamed", "")]
        ELSE IF user_data[u].awaiting_project_name
        THEN /\ user_data' =
                  [user_data EXCEPT ![u].awaiting_project_name = FALSE,
                                    ![u].awaiting_project_dir = user_input(t)]
             /\ turn' = [turn EXCEPT ![t] = Returned(r, "project_named", "")]
             /\ UNCHANGED db
        ELSE IF user_data[u].awaiting_project_dir # Unset
        THEN LET project_name == user_data[u].awaiting_project_dir
             IN /\ user_data' =
                     [user_data EXCEPT ![u].awaiting_project_dir = Unset]
                /\ \/ /\ db.sqlite_sequence.projects < MaxProjects
                      /\ db' = create_project(db, u, c, project_name,
                                              resolve(user_input(t)), clock)
                      /\ turn' = [turn EXCEPT ![t] =
                                    Returned(r, "project_created", "")]
                   \/ /\ UNCHANGED db
                      /\ turn' = [turn EXCEPT ![t] =
                                    Returned(r, "invalid_path", "")]
        ELSE /\ turn' = [turn EXCEPT ![t] = [r EXCEPT !.pc = "resolving"]]
             /\ UNCHANGED <<db, user_data>>
  /\ UNCHANGED <<clock, last, tasks, bg, calls, par, chunked>>

\* handle_message up to its first await inside the try block.  An update of
\* a user outside ALLOWED_USERS is dropped.  A pending /rename consumes the
\* text as the new name.  (The awaiting_project_name and awaiting_project_dir
\* branches need handle_newproject, which bot.py does not register.)
MsgStart(t, u, c) ==
  /\ turn[t].pc = "idle"
  /\ \A t0 \in Turns : t0 < t => turn[t0].pc # "idle"
  /\ LET r == [turn[t] EXCEPT !.user_id = u, !.chat_id = c]
     IN IF u \notin ALLOWED_USERS
        THEN /\ turn' = [turn EXCEPT ![t] = Returned(r, "dropped", "")]
             /\ UNCHANGED <<db, user_data>>
        ELSE IF user_data[u].awaiting_rename # NULL
        THEN LET session_id == user_data[u].awaiting_rename
             IN /\ user_data' =
                     [user_data EXCEPT ![u].awaiting_rename = NULL]
                /\ IF ~OwnedBy(db, session_id, u, c)
                   THEN /\ UNCHANGED db
                        /\ turn' = [turn EXCEPT ![t] =
                                      Returned(r, "rename_gone", "")]
                   ELSE /\ db' = rename_session(db, session_id,
                                                user_input(t), clock)
                        /\ turn' = [turn EXCEPT ![t] =
                              Returned([r EXCEPT !.session_id = session_id],
                                       "renamed", "")]
        ELSE IF user_data[u].awaiting_project_name
        THEN /\ user_data' =
                  [user_data EXCEPT ![u].awaiting_project_name = FALSE,
                                    ![u].awaiting_project_dir = user_input(t)]
             /\ turn' = [turn EXCEPT ![t] = Returned(r, "project_named", "")]
             /\ UNCHANGED db
        ELSE IF user_data[u].awaiting_project_dir # Unset
        THEN LET project_name == user_data[u].awaiting_project_dir
             IN /\ user_data' =
                     [user_data EXCEPT ![u].awaiting_project_dir = Unset]
                /\ \/ /\ db.sqlite_sequence.projects < MaxProjects
                      /\ db' = create_project(db, u, c, project_name,
                                              resolve(user_input(t)), clock)
                      /\ turn' = [turn EXCEPT ![t] =
                                    Returned(r, "project_created", "")]
                   \/ /\ UNCHANGED db
                      /\ turn' = [turn EXCEPT ![t] =
                                    Returned(r, "invalid_path", "")]
        ELSE /\ turn' = [turn EXCEPT ![t] = [r EXCEPT !.pc = "resolving"]]
             /\ UNCHANGED <<db, user_data>>
  /\ UNCHANGED <<clock, last, tasks, bg, calls, par, chunked>>

\* session = get_or_create_active_session(user_id, chat_id)
MsgResolve(t) ==
  /\ turn[t].pc = "resolving"
  /\ LET u == turn[t].user_id
         c == turn[t].chat_id
         session == active_or_created(db, u, c, clock)
     IN /\ \/ get_active_session(db, u, c).id # NULL
           \/ db.sqlite_sequence.sessions < MaxSessions
        /\ db' = get_or_create_active_session(db, u, c, clock)
        /\ turn' = [turn EXCEPT ![t] =
                      [@ EXCEPT !.pc = "loading",
                                !.session_id = session.id,
                                !.claude_session_id =
                                   claude_session_id(db, session.id)]]
  /\ UNCHANGED <<clock, last, user_data, tasks, bg, calls, par, chunked>>

\* any(msg.role == "user" for msg in past_messages)
has_user_messages(past_messages) ==
  \E i \in 1..Len(past_messages) : past_messages[i].role = "user"

\* past_messages = get_session_messages(session.id, limit=20)
MsgLoad(t) ==
  /\ turn[t].pc = "loading"
  /\ LET past_messages ==
           get_session_messages(db, turn[t].session_id, HistoryLimit)
         is_first_message == ~has_user_messages(past_messages)
     IN turn' = [turn EXCEPT ![t] =
                   [@ EXCEPT !.pc = IF is_first_message THEN "titling"
                                    ELSE "calling",
                             !.is_first_message = is_first_message]]
  /\ UNCHANGED <<db, clock, last, user_data, tasks, bg, calls, par, chunked>>

\* working_dir of the call: project.working_dir of the Session's project,
\* None without a project_id or without the project's row.  session is the
\* object loaded when the turn resolved its Session; its project_id is read
\* here from the Session's row, which never changes it.
working_dir(d, sid) ==
  LET session == get_session(d, sid)
  IN IF session.id = NULL THEN NULL
     ELSE IF session.project_id = NULL THEN NULL
     ELSE IF get_project(d, session.project_id).id = NULL THEN NULL
     ELSE get_project(d, session.project_id).working_dir

\* the arguments of the llm_reply call of turn t, whose locals are r, by
\* name: llm_reply(user_input, claude_session_id=..., working_dir=...)
llm_reply_arguments(d, r, t) ==
  [user_input |-> user_input(t),
   claude_session_id |-> r.claude_session_id,
   working_dir |-> working_dir(d, r.session_id)]

\* generate_session_title returns: rename_session(session.id, new_title)
MsgTitled(t) ==
  /\ turn[t].pc = "titling"
  /\ db' = rename_session(db, turn[t].session_id, new_title(t), clock)
  /\ turn' = [turn EXCEPT ![t].pc = "calling"]
  /\ UNCHANGED <<clock, last, user_data, tasks, bg, calls, par, chunked>>

\* the except branch: the status message is deleted, "LLM error: {e}" is
\* sent and the handler returns
Fail(t, e) == turn' = [turn EXCEPT ![t] = Returned(@, "failed", e)]

\* generate_session_title raises
MsgTitleRaises(t) ==
  /\ turn[t].pc = "titling"
  /\ Fail(t, "title generation failed")
  /\ UNCHANGED <<db, clock, last, user_data, tasks, bg, calls, par, chunked>>

\* variant: the user message is saved before the model is called
MsgModelRaises_UserSaved(t) ==
  /\ turn[t].pc = "calling"
  /\ db' = save_message(db, turn[t].session_id, turn[t].user_id,
                        turn[t].chat_id, "user", user_input(t), clock)
  /\ Fail(t, "model call failed")
  /\ UNCHANGED <<clock, last, user_data, tasks, bg, calls, par, chunked>>

\* llm_reply raises
MsgModelRaises(t) ==
  /\ turn[t].pc = "calling"
  /\ Fail(t, "model call failed")
  /\ UNCHANGED <<db, clock, last, user_data, tasks, bg, calls, par, chunked>>

\* variant: the Messages go to the Session that is active at the save
Persisted_ActiveAtSave(d, t, token) ==
  LET r  == turn[t]
      active == get_active_session(d, r.user_id, r.chat_id).id
      sid == IF active # NULL THEN active ELSE r.session_id
      d1 == save_message(d, sid, r.user_id, r.chat_id, "user",
                         user_input(t), clock)
  IN save_message(d1, sid, r.user_id, r.chat_id, "assistant",
                  reply_text(t), clock)

\* the Store writes of a turn whose model call returned (reply, token):
\* the two save_message calls, then update_claude_session_id on a first
\* message that got a new token
Persisted(d, t, token) ==
  LET r  == turn[t]
      d1 == save_message(d, r.session_id, r.user_id, r.chat_id, "user",
                         user_input(t), clock)
      d2 == save_message(d1, r.session_id, r.user_id, r.chat_id,
                         "assistant", reply_text(t), clock)
  IN IF r.is_first_message /\ token # NULL /\ token # r.claude_session_id
     THEN update_claude_session_id(d2, r.session_id, token)
     ELSE d2

\* variant: an await between the two save_message calls
MsgModelReturns_AwaitBetweenSaves(t, token) ==
  /\ turn[t].pc = "calling"
  /\ LET r == turn[t]
     IN IF \A m \in db.messages : m.content # user_input(t)
        THEN /\ db' = save_message(db, r.session_id, r.user_id, r.chat_id,
                                   "user", user_input(t), clock)
             /\ UNCHANGED turn
        ELSE /\ db' = save_message(db, r.session_id, r.user_id, r.chat_id,
                                   "assistant", reply_text(t), clock)
             /\ turn' = [turn EXCEPT ![t] = Returned(@, "done", "")]
  /\ UNCHANGED <<clock, last, user_data, tasks, bg, calls, par, chunked>>

\* llm_reply returns, the turn is saved and the reply is sent
MsgModelReturns(t, token) ==
  /\ turn[t].pc = "calling"
  /\ IF save_message_raises(db, turn[t].session_id, "user")
     THEN /\ Fail(t, "save failed")
          /\ UNCHANGED db
     ELSE /\ db' = Persisted(db, t, token)
          /\ turn' = [turn EXCEPT ![t] = Returned(@, "done", "")]
  /\ UNCHANGED <<clock, last, user_data, tasks, bg, calls, par, chunked>>

\* llm_reply returns and sqlite3 fails in a save_message (a locked or full
\* database): in the first, or in the second after the first has committed
MsgSaveFails(t, n) ==
  /\ turn[t].pc = "calling"
  /\ LET r == turn[t]
     IN db' = IF n = 1 THEN db
              ELSE save_message(db, r.session_id, r.user_id, r.chat_id,
                                "user", user_input(t), clock)
  /\ Fail(t, "save failed")
  /\ UNCHANGED <<clock, last, user_data, tasks, bg, calls, par, chunked>>

\* a turn takes a step
MsgStep(t) ==
  \/ MsgResolve(t)
  \/ MsgLoad(t)
  \/ MsgTitled(t)
  \/ MsgTitleRaises(t)
  \/ MsgModelRaises(t)
  \/ \E token \in Tokens : MsgModelReturns(t, token)
  \/ \E n \in 1..2 : MsgSaveFails(t, n)

\* concurrent turns alone, of any sender, from an empty Store
TurnNext ==
  \/ \E t \in Turns, p \in Pairs : MsgStart(t, p[1], p[2])
  \/ \E t \in Turns : MsgStep(t)

TurnSpec == Init /\ [][TurnNext]_vars

\* the first turns beside the session commands of the allowed user
Next ==
  \/ \E t \in 1..MaxCommandTurns, p \in AuthPairs : MsgStart(t, p[1], p[2])
  \/ \E t \in 1..MaxCommandTurns : MsgStep(t)
  \/ \E p \in AuthPairs : Newsession(p[1], p[2], NoName)
  \/ \E p \in AuthPairs, sid \in 1..MaxSessions : Switch(p[1], p[2], sid)
  \/ \E p \in AuthPairs : Rename(p[1], p[2])
  \/ \E p \in AuthPairs, sid \in 1..MaxSessions : Delsession(p[1], p[2], sid)

Spec == Init /\ [][Next]_vars

\* the commands with the reply of each recorded in last, beside the text
\* updates of one chat
CommandNext ==
  \/ \E t \in 1..MaxCommandTurns, p \in TextPairs : MsgStart(t, p[1], p[2])
  \/ \E t \in 1..MaxCommandTurns : MsgStep(t)
  \/ \E p \in AuthPairs : HandleNewsession(p[1], p[2], NoName)
  \/ \E p \in AuthPairs, sid \in 1..MaxSessions :
       HandleSwitch(p[1], p[2], sid)
  \/ \E p \in AuthPairs, sid \in 1..MaxSessions :
       HandleDelsession(p[1], p[2], sid)

CommandSpec == Init /\ [][CommandNext]_vars

\* an allowed and a not allowed sender in one chat
Senders == Users \X {1}

\* every handler, called by either sender
AuthNext ==
  \/ \E p \in Senders : MsgStart(1, p[1], p[2])
  \/ MsgStep(1)
  \/ \E p \in Senders : HandleNewsession(p[1], p[2], NoName)
  \/ \E p \in Senders, sid \in 1..MaxSessions : HandleSwitch(p[1], p[2], sid)
  \/ \E p \in Senders : HandleRename(p[1], p[2])
  \/ \E p \in Senders, sid \in 1..MaxSessions :
       HandleDelsession(p[1], p[2], sid)
  \/ \E p \in Senders : HandleSessions(p[1], p[2])
  \/ \E p \in Senders : HandleStatus(p[1], p[2])
  \/ \E p \in Senders : HandleStart(p[1], p[2])
  \/ \E p \in Senders : HandleHelp(p[1], p[2])
  \/ \E p \in Senders : HandleNewproject(p[1], p[2])
  \/ \E p \in Senders : HandleProjects(p[1], p[2])
  \/ \E p \in Senders, pid \in 1..MaxProjects :
       HandleDelproject(p[1], p[2], pid)
  \/ \E p \in Senders, data \in CallbackData :
       HandleSessionCallback(p[1], p[2], data)

AuthSpec == Init /\ [][AuthNext]_vars

\* the session and project commands and the inline buttons of the allowed
\* user in both chats, with the Projects the /newproject dialogue created
ButtonNext ==
  \/ \E p \in AuthPairs : StoreCreateProject(p[1], p[2])
  \/ \E p \in AuthPairs : HandleNewsession(p[1], p[2], NoName)
  \/ \E p \in AuthPairs,
         data \in {x \in CallbackData : x[1] # "session_page"} :
       HandleSessionCallback(p[1], p[2], data)
  \/ \E p \in AuthPairs, sid \in 1..MaxSessions :
       HandleSwitch(p[1], p[2], sid)
  \/ \E p \in AuthPairs, sid \in 1..MaxSessions :
       HandleDelsession(p[1], p[2], sid)
  \/ \E p \in AuthPairs, pid \in 1..MaxProjects :
       HandleDelproject(p[1], p[2], pid)

ButtonSpec == Init /\ [][ButtonNext]_vars

\* a press of an inline button
SessionCallback(u, c, data) ==
  /\ data[1] = "newses_project" => db.sqlite_sequence.sessions < MaxSessions
  /\ Unrecorded(handle_session_callback(db, user_data, u, c, data, clock))

\* a /newproject dialogue that has run to its end
Newproject(u, c) ==
  /\ db.sqlite_sequence.projects < MaxProjects
  /\ db' = create_project(db, u, c, <<"project", 1>>, <<"dir", 1>>, clock)
  /\ UNCHANGED <<clock, last, turn, user_data, tasks, bg, calls, par,
                 chunked>>

\* a text message beside the session commands and the buttons of the user
\* in both chats
HandlerNext ==
  \/ \E p \in AuthPairs : MsgStart(1, p[1], p[2])
  \/ MsgStep(1)
  \/ \E p \in AuthPairs : Newproject(p[1], p[2])
  \/ \E p \in AuthPairs : Newsession(p[1], p[2], NoName)
  \/ \E p \in AuthPairs, sid \in 1..MaxSessions : Switch(p[1], p[2], sid)
  \/ \E p \in AuthPairs, sid \in 1..MaxSessions : Delsession(p[1], p[2], sid)
  \/ \E p \in AuthPairs,
         data \in {x \in CallbackData : x[1] # "session_page"} :
       SessionCallback(p[1], p[2], data)

HandlerSpec == Init /\ [][HandlerNext]_vars

\* a text message beside the session commands and the switch buttons of
\* the user in both chats, every command recorded with its sender
IsolationNext ==
  \/ \E p \in AuthPairs : MsgStart(1, p[1], p[2])
  \/ MsgStep(1)
  \/ \E p \in AuthPairs : HandleNewsession(p[1], p[2], NoName)
  \/ \E p \in AuthPairs, sid \in 1..MaxSessions :
       HandleSwitch(p[1], p[2], sid)
  \/ \E p \in AuthPairs : HandleRename(p[1], p[2])
  \/ \E p \in AuthPairs, sid \in 1..MaxSessions :
       HandleDelsession(p[1], p[2], sid)
  \/ \E p \in AuthPairs, sid \in 1..MaxSessions :
       HandleSessionCallback(p[1], p[2], <<"session_switch", sid>>)

IsolationSpec == Init /\ [][IsolationNext]_vars

-----------------------------------------------------------------------------
(* The task registry (executor.tasks) and the background runs.  /bg puts a *)
(* Task in the registry, awaits its reply and schedules                    *)
(* run_background_task, which awaits run_command and bot.send_message.     *)

\* what run_command(command, timeout=300) returns: (output, success); a
\* timeout and an exception of the subprocess calls are caught inside it
RunResults ==
  { <<Str("stdout", OutputLimit + 1), TRUE>>,
    <<Str("Command timed out", 17), FALSE>>,
    <<Str("Error: e", 8), FALSE>> }

\* tasks[task_id] = task
Put(d, task_id, task) ==
  [k \in DOMAIN d \cup {task_id} |-> IF k = task_id THEN task ELSE d[k]]

\* variant: the status of every entry is written
SetStatus_EveryEntry(d, task_id, status) ==
  [k \in DOMAIN d |-> [d[k] EXCEPT !.status = status]]

\* if task_id in tasks: tasks[task_id].status = status
SetStatus(d, task_id, status) ==
  IF task_id \in DOMAIN d THEN [d EXCEPT ![task_id].status = status] ELSE d

\* the coroutine of an update or of a run has returned: its locals are gone
BgReturned(pc, handler, logged) ==
  [IdleBg EXCEPT !.pc = pc, !.handler = handler, !.logged = logged]

\* the updates arrive in the order of their numbers
BgArrives(r) ==
  /\ bg[r].pc = "idle"
  /\ \A q \in BgRuns : q < r => bg[q].pc # "idle"

\* handle_background up to its first await
HandleBackground(r, u, c, command) ==
  /\ BgArrives(r)
  /\ IF u \notin ALLOWED_USERS
     THEN /\ bg' = [bg EXCEPT ![r] = BgReturned("returned", "returned", FALSE)]
          /\ UNCHANGED tasks
     ELSE IF command = ""
     THEN /\ bg' = [bg EXCEPT ![r] = BgReturned("usage", "returned", FALSE)]
          /\ UNCHANGED tasks
     ELSE \E task_id \in TaskIds :
            /\ tasks' = Put(tasks, task_id, Task(task_id, command))
            /\ bg' = [bg EXCEPT ![r] = [@ EXCEPT !.pc = "replying",
                                                 !.handler = "awaiting",
                                                 !.chat_id = c,
                                                 !.task_id = task_id,
                                                 !.command = command]]
  /\ UNCHANGED <<db, clock, last, turn, user_data, calls, par, chunked>>

\* reply_text("Started background task") returns: asyncio.create_task
BgReplied(r) ==
  /\ bg[r].pc = "replying"
  /\ bg' = [bg EXCEPT ![r].pc = "created", ![r].handler = "returned"]
  /\ UNCHANGED <<db, clock, last, turn, user_data, tasks, calls, par, chunked>>

\* reply_text raises: handle_background ends before asyncio.create_task
BgReplyRaises(r) ==
  /\ bg[r].pc = "replying"
  /\ bg' = [bg EXCEPT ![r] = BgReturned("aborted", "raised", FALSE)]
  /\ UNCHANGED <<db, clock, last, turn, user_data, tasks, calls, par, chunked>>

\* run_background_task up to await run_command
BgRunStarts(r) ==
  /\ bg[r].pc = "created"
  /\ tasks' = SetStatus(tasks, bg[r].task_id, "running")
  /\ bg' = [bg EXCEPT ![r].pc = "running"]
  /\ UNCHANGED <<db, clock, last, turn, user_data, calls, par, chunked>>

\* the status word of the notification
StatusWord(success) == IF success THEN "Done" ELSE "Failed"

\* what bot.send_message is called with
Notice(chat_id, output, success) ==
  [sent |-> TRUE, chat_id |-> chat_id, status |-> StatusWord(success),
   output |-> Slice(output, OutputLimit)]

\* variant: only a successful run is notified
BgRunReturns_SilentFailure(r, res) ==
  /\ bg[r].pc = "running"
  /\ tasks' = [tasks EXCEPT
                ![bg[r].task_id].status = IF res[2] THEN "done" ELSE "failed",
                ![bg[r].task_id].output = res[1]]
  /\ bg' = IF res[2]
           THEN [bg EXCEPT
                   ![r].pc = "sending",
                   ![r].notice = Notice(bg[r].chat_id, res[1], TRUE)]
           ELSE [bg EXCEPT ![r] = BgReturned("finished", "returned", FALSE)]
  /\ UNCHANGED <<db, clock, last, turn, user_data, calls, par, chunked>>

\* run_command returns: the entry is written and bot.send_message is called
BgRunReturns(r, res) ==
  /\ bg[r].pc = "running"
  /\ LET output == res[1]
         success == res[2]
         task_id == bg[r].task_id
     IN /\ tasks' =
             IF task_id \in DOMAIN tasks
             THEN [tasks EXCEPT
                     ![task_id].status = IF success THEN "done" ELSE "failed",
                     ![task_id].output = output]
             ELSE tasks
        /\ bg' = [bg EXCEPT
                    ![r].pc = "sending",
                    ![r].notice = Notice(bg[r].chat_id, output, success)]
  /\ UNCHANGED <<db, clock, last, turn, user_data, calls, par, chunked>>

\* bot.send_message returns
BgSent(r) ==
  /\ bg[r].pc = "sending"
  /\ bg' = [bg EXCEPT ![r] = BgReturned("finished", "returned", FALSE)]
  /\ UNCHANGED <<db, clock, last, turn, user_data, tasks, calls, par, chunked>>

\* variant: no except clause around the run, and the handler awaits the run
BgSendRaises_Propagates(r) ==
  /\ bg[r].pc = "sending"
  /\ bg' = [bg EXCEPT ![r] = BgReturned("finished", "raised", FALSE)]
  /\ UNCHANGED <<db, clock, last, turn, user_data, tasks, calls, par, chunked>>

\* bot.send_message raises: except Exception logs it
BgSendRaises(r) ==
  /\ bg[r].pc = "sending"
  /\ bg' = [bg EXCEPT ![r] = BgReturned("finished", "returned", TRUE)]
  /\ UNCHANGED <<db, clock, last, turn, user_data, tasks, calls, par, chunked>>

\* the /bg updates of any sender and the runs they start
TaskNext ==
  \/ \E r \in BgRuns, p \in Pairs, command \in Commands :
       HandleBackground(r, p[1], p[2], command)
  \/ \E r \in BgRuns : BgReplied(r)
  \/ \E r \in BgRuns : BgReplyRaises(r)
  \/ \E r \in BgRuns : BgRunStarts(r)
  \/ \E r \in BgRuns, res \in RunResults : BgRunReturns(r, res)
  \/ \E r \in BgRuns : BgSent(r)
  \/ \E r \in BgRuns : BgSendRaises(r)

TaskSpec == Init /\ [][TaskNext]_vars

\* the event loop runs every task it is given, and run_command returns
\* within its timeout
TaskFairSpec ==
  /\ TaskSpec
  /\ \A r \in BgRuns :
       /\ WF_vars(BgRunStarts(r))
       /\ WF_vars(\E res \in RunResults : BgRunReturns(r, res))

\* and every reply_text of a /bg update returns or raises
TaskLiveSpec ==
  /\ TaskFairSpec
  /\ \A r \in BgRuns : WF_vars(BgReplied(r) \/ BgReplyRaises(r))

-----------------------------------------------------------------------------
(* run_command and execute_parallel (executor.py).  A call awaits the      *)
(* spawn of its shell and then proc.communicate() under asyncio.wait_for;  *)
(* time is counted in steps of the default timeout.                        *)

CommandTexts == {"a", "b"}
Timeouts == {DefaultTimeout, BackgroundTimeout}

\* what a pipe of the subprocess holds at its end: bytes, as the string
\* they decode to, or bytes that are no UTF-8
Bytes(text, len) == [valid |-> TRUE, str |-> Str(text, len)]
Undecodable == [valid |-> FALSE, str |-> Str("", 0)]
Stdouts == {Bytes("", 0), Bytes("out", 3), Undecodable}
Stderrs == {Bytes("", 0), Bytes("err", 3), Undecodable}
ReturnCodes == {0, 1}

TimedOut == <<Str("Command timed out", 17), FALSE>>
\* f"Error: {e}" for an exception e of description e
ErrorResult == <<Str("Error: e", 8), FALSE>>

\* stdout.decode() or stderr.decode() or "(no output)" raises
\* UnicodeDecodeError: stderr is decoded only when stdout decodes to ""
decode_raises(stdout, stderr) ==
  \/ ~stdout.valid
  \/ stdout.str.len = 0 /\ ~stderr.valid

\* stdout.decode() or stderr.decode() or "(no output)"
decoded_output(stdout, stderr) ==
  IF stdout.str.len > 0 THEN stdout.str
  ELSE IF stderr.str.len > 0 THEN stderr.str
  ELSE Str("(no output)", 11)

\* lines 30-40, and line 62 for the UnicodeDecodeError
communicate_result(stdout, stderr, returncode) ==
  IF decode_raises(stdout, stderr) THEN ErrorResult
  ELSE <<decoded_output(stdout, stderr), returncode = 0>>

\* run_command has returned: its locals are gone
CallReturned(call, proc, event, result) ==
  [IdleCall EXCEPT !.pc = "returned", !.command = call.command,
                   !.proc = proc, !.event = event, !.result = result]

\* run_command(command, timeout) up to await create_subprocess_shell
StartCall(call, command, timeout) ==
  [call EXCEPT !.pc = "spawning", !.command = command, !.timeout = timeout]

RunCommand(i, command, timeout) ==
  /\ par.pc = "idle"
  /\ calls[i].pc = "idle"
  /\ \A j \in Calls : j < i => calls[j].pc # "idle"
  /\ calls' = [calls EXCEPT ![i] = StartCall(@, command, timeout)]
  /\ UNCHANGED <<db, clock, last, turn, user_data, tasks, bg, par, chunked>>

\* create_subprocess_shell returns: await wait_for(proc.communicate())
Spawned(i) ==
  /\ calls[i].pc = "spawning"
  /\ calls' = [calls EXCEPT ![i].pc = "communicating", ![i].proc = "running"]
  /\ UNCHANGED <<db, clock, last, turn, user_data, tasks, bg, par, chunked>>

\* variant: no except Exception clause
SpawnRaises_Propagates(i) ==
  /\ calls[i].pc = "spawning"
  /\ calls' = [calls EXCEPT ![i] = [IdleCall EXCEPT !.pc = "raised"]]
  /\ UNCHANGED <<db, clock, last, turn, user_data, tasks, bg, par, chunked>>

\* create_subprocess_shell raises: except Exception
SpawnRaises(i) ==
  /\ calls[i].pc = "spawning"
  /\ calls' = [calls EXCEPT ![i] =
                 CallReturned(@, "none", "command_error", ErrorResult)]
  /\ UNCHANGED <<db, clock, last, turn, user_data, tasks, bg, par, chunked>>

\* time passes for a waiting call
CallWaits(i) ==
  /\ calls[i].pc = "communicating"
  /\ calls[i].elapsed < calls[i].timeout
  /\ calls' = [calls EXCEPT ![i].elapsed = @ + DefaultTimeout]
  /\ UNCHANGED <<db, clock, last, turn, user_data, tasks, bg, par, chunked>>

\* the shell exits and its pipes close: communicate returns
ProcExits(i, stdout, stderr, returncode) ==
  /\ calls[i].pc = "communicating"
  /\ calls[i].proc = "running"
  /\ calls' = [calls EXCEPT ![i] =
                 CallReturned(@, "exited",
                              IF decode_raises(stdout, stderr)
                              THEN "command_error" ELSE "command_finished",
                              communicate_result(stdout, stderr, returncode))]
  /\ UNCHANGED <<db, clock, last, turn, user_data, tasks, bg, par, chunked>>

\* the shell exits while a child of it keeps the pipes open: communicate
\* goes on waiting for their end
ProcExitsPipesOpen(i) ==
  /\ calls[i].pc = "communicating"
  /\ calls[i].proc = "running"
  /\ calls' = [calls EXCEPT ![i].proc = "exited"]
  /\ UNCHANGED <<db, clock, last, turn, user_data, tasks, bg, par, chunked>>

\* variant: the failure of one command cancels the other waiting ones
CommunicateRaises_CancelsOthers(i) ==
  /\ calls[i].pc = "communicating"
  /\ calls' = [j \in Calls |->
                 IF j = i \/ calls[j].pc = "communicating"
                 THEN CallReturned(calls[j], calls[j].proc, "command_error",
                                   ErrorResult)
                 ELSE calls[j]]
  /\ UNCHANGED <<db, clock, last, turn, user_data, tasks, bg, par, chunked>>

\* communicate raises (an I/O failure of the pipes): except Exception
CommunicateRaises(i) ==
  /\ calls[i].pc = "communicating"
  /\ calls' = [calls EXCEPT ![i] =
                 CallReturned(@, @.proc, "command_error", ErrorResult)]
  /\ UNCHANGED <<db, clock, last, turn, user_data, tasks, bg, par, chunked>>

\* variant: the subprocess is left to its natural end
kill_Never(proc) == proc

\* proc.kill(): an OSError (the process is gone already) is passed over
kill(proc) == IF proc = "running" THEN "killed" ELSE proc

\* wait_for raises asyncio.TimeoutError when the timeout has passed
CallTimesOut(i) ==
  /\ calls[i].pc = "communicating"
  /\ calls[i].elapsed >= calls[i].timeout
  /\ calls' = [calls EXCEPT ![i] =
                 CallReturned(@, kill(@.proc), "command_timeout", TimedOut)]
  /\ UNCHANGED <<db, clock, last, turn, user_data, tasks, bg, par, chunked>>

\* the steps of a call that has been made
CallStep(i) ==
  \/ Spawned(i)
  \/ SpawnRaises(i)
  \/ CallWaits(i)
  \/ \E stdout \in Stdouts, stderr \in Stderrs, returncode \in ReturnCodes :
       ProcExits(i, stdout, stderr, returncode)
  \/ ProcExitsPipesOpen(i)
  \/ CommunicateRaises(i)
  \/ CallTimesOut(i)

\* single run_command calls with either timeout
RunNext ==
  \/ \E i \in Calls, command \in CommandTexts, timeout \in Timeouts :
       RunCommand(i, command, timeout)
  \/ \E i \in Calls : CallStep(i)

RunSpec == Init /\ [][RunNext]_vars

\* the lists of commands execute_parallel is called with
CommandLists == UNION {[1..n -> CommandTexts] : n \in 1..MaxCalls}

\* execute_parallel(commands): gather starts run_one(cmd), which calls
\* run_command(cmd) with the default timeout, for every command
ExecuteParallel(commands) ==
  /\ par.pc = "idle"
  /\ \A i \in Calls : calls[i].pc = "idle"
  /\ par' = [par EXCEPT !.pc = "gathering", !.commands = commands]
  /\ calls' = [i \in Calls |->
                 IF i <= Len(commands)
                 THEN StartCall(calls[i], commands[i], DefaultTimeout)
                 ELSE calls[i]]
  /\ UNCHANGED <<db, clock, last, turn, user_data, tasks, bg, chunked>>

\* run_one: (cmd, output, success) of the i-th command
run_one(commands, i) ==
  <<commands[i], calls[i].result[1], calls[i].result[2]>>

\* every run_one has returned: gather returns their values in the order of
\* its arguments
GatherReturns ==
  /\ par.pc = "gathering"
  /\ \A i \in 1..Len(par.commands) : calls[i].pc = "returned"
  /\ par' = [par EXCEPT
               !.pc = "returned",
               !.results = [i \in 1..Len(par.commands) |->
                              run_one(par.commands, i)]]
  /\ UNCHANGED <<db, clock, last, turn, user_data, tasks, bg, calls, chunked>>

\* one execute_parallel call
ParNext ==
  \/ \E commands \in CommandLists : ExecuteParallel(commands)
  \/ \E i \in Calls : CallStep(i)
  \/ GatherReturns

ParSpec == Init /\ [][ParNext]_vars

-----------------------------------------------------------------------------
(* reply_text_chunked and escape_markdown_v2 (handlers.py).  A text is the  *)
(* sequence of its characters; the call awaits each reply_text, so every    *)
(* message it sends is a step, and a reply_text that raises ends the call.  *)

\* the default of the chunk_size parameter
DefaultChunkSize == 3500
ChunkSizes == 1..MaxChunk \cup {DefaultChunkSize}
\* characters of a reply: a plain one, the backslash and two special ones
Chars == {"a", "\\", "_", "."}
Texts == UNION {[1..n -> Chars] : n \in 0..MaxTextLen}

\* "grave" is the grave accent
special_chars ==
  <<"_", "*", "[", "]", "(", ")", "~", "grave", ">", "#", "+", "-", "=",
    "|", "{", "}", ".", "!">>

RECURSIVE replace(_, _, _)
\* text.replace(old, new), old one character
replace(text, old, new) ==
  IF text = <<>> THEN <<>>
  ELSE (IF Head(text) = old THEN new ELSE <<Head(text)>>)
         \o replace(Tail(text), old, new)

RECURSIVE escape_from(_, _)
\* the loop over special_chars, from its k-th character on
escape_from(text, k) ==
  IF k > Len(special_chars) THEN text
  ELSE escape_from(replace(text, special_chars[k],
                           <<"\\", special_chars[k]>>), k + 1)

escape_markdown_v2(text) ==
  escape_from(replace(text, "\\", <<"\\", "\\">>), 1)

\* "(empty)"
EmptyReply == <<"(", "e", "m", "p", "t", "y", ")">>

Min(a, b) == IF a < b THEN a ELSE b

chunk_DropsTail(escaped_text, i, chunk_size) ==
  IF i + chunk_size > Len(escaped_text) THEN <<>>
  ELSE SubSeq(escaped_text, i + 1, i + chunk_size)

\* escaped_text[i : i + chunk_size]
chunk(escaped_text, i, chunk_size) ==
  SubSeq(escaped_text, i + 1, Min(i + chunk_size, Len(escaped_text)))

\* the call, up to its first await
ReplyTextChunked(text, chunk_size) ==
  /\ chunked.pc = "idle"
  /\ chunked' =
       IF text = <<>>
       THEN [chunked EXCEPT !.pc = "empty", !.chunk_size = chunk_size]
       ELSE [chunked EXCEPT !.pc = "chunks", !.text = text,
                            !.chunk_size = chunk_size,
                            !.escaped_text = escape_markdown_v2(text)]
  /\ UNCHANGED <<db, clock, last, turn, user_data, tasks, bg, calls, par>>

\* reply_text("(empty)") returns, and the call with it
EmptySent ==
  /\ chunked.pc = "empty"
  /\ chunked' = [chunked EXCEPT
                   !.pc = "returned",
                   !.sent = <<[text |-> EmptyReply, parse_mode |-> ""]>>]
  /\ UNCHANGED <<db, clock, last, turn, user_data, tasks, bg, calls, par>>

\* the reply_text of one chunk returns; the loop goes on or ends
ChunkSent ==
  /\ chunked.pc = "chunks"
  /\ chunked' = [chunked EXCEPT
                   !.pc = IF chunked.i + chunked.chunk_size
                               < Len(chunked.escaped_text)
                          THEN "chunks" ELSE "returned",
                   !.i = Min(@ + chunked.chunk_size,
                             Len(chunked.escaped_text)),
                   !.sent = Append(@, [text |-> chunk(chunked.escaped_text,
                                                      chunked.i,
                                                      chunked.chunk_size),
                                       parse_mode |-> "MarkdownV2"])]
  /\ UNCHANGED <<db, clock, last, turn, user_data, tasks, bg, calls, par>>

\* a reply_text raises (telegram.error.TelegramError): the call raises
ReplyTextRaises ==
  /\ chunked.pc \in {"empty", "chunks"}
  /\ chunked' = [chunked EXCEPT !.pc = "raised"]
  /\ UNCHANGED <<db, clock, last, turn, user_data, tasks, bg, calls, par>>

\* one reply_text_chunked call on any text
ChunkNext ==
  \/ \E text \in Texts, chunk_size \in ChunkSizes :
       ReplyTextChunked(text, chunk_size)
  \/ EmptySent
  \/ ChunkSent
  \/ ReplyTextRaises

ChunkSpec == Init /\ [][ChunkNext]_vars

-----------------------------------------------------------------------------
(* Properties of the Store *)

\* C1: after any sequence of create_session, set_active_session,
\* get_or_create_active_session and delete_session calls there is at most one
\* active-session pointer per (user_id, chat_id); set_active_session on a
\* pair that has a pointer replaces it.
C1_OnePointerPerPair ==
  /\ \A a, b \in db.active_sessions :
        (a.user_id = b.user_id /\ a.chat_id = b.chat_id) => a = b
  /\ (last.op = "set_active_session" /\ ~last.raised) =>
        PointerIds(db, last.user_id, last.chat_id) = {last.id}

\* a set_active_session that replaced the pointer of a pair by another one
C1_Witness ==
  /\ last.op = "set_active_session"
  /\ ~last.raised
  /\ last.prev # {}
  /\ last.id \notin last.prev
  /\ PointerIds(db, last.user_id, last.chat_id) = {last.id}

\* C2: get_or_create_active_session(user, chat) returns the Session the
\* pointer of (user, chat) refers to and creates nothing when the pair has a
\* pointer; otherwise it creates exactly one Session, and the pointer of
\* (user, chat) then refers to the Session returned.
C2_GetOrCreate ==
  [][ last'.op = "get_or_create_active_session" =>
        LET u == last'.user_id
            c == last'.chat_id
        IN IF PointerIds(db, u, c) # {}
           THEN /\ db' = db
                /\ last'.ret \in PointerIds(db, u, c)
           ELSE /\ Cardinality(db'.sessions) = Cardinality(db.sessions) + 1
                /\ last'.ret \in SessionIds(db') \ SessionIds(db)
                /\ PointerIds(db', u, c) = {last'.ret} ]_vars

\* C4: set_active_session(user, chat, session_id) with a session_id that
\* does not exist or is not owned by (user, chat) fails with the not-found
\* error and leaves the pointer of (user, chat) as it was.
C4_SetActiveNotOwned ==
  (/\ last.op = "set_active_session"
   /\ ~OwnedBy(db, last.id, last.user_id, last.chat_id))
  => /\ last.raised
     /\ PointerIds(db, last.user_id, last.chat_id) = last.prev

\* a set_active_session naming another pair's Session, made by a pair that
\* has a pointer
C4_Witness ==
  /\ last.op = "set_active_session"
  /\ last.id \in SessionIds(db)
  /\ ~OwnedBy(db, last.id, last.user_id, last.chat_id)
  /\ last.prev # {}
  /\ last.raised

\* C8: after delete_project(p) every Session that referenced p has
\* project_id = None and is otherwise intact, and no Session is deleted.
C8_DeleteProjectNullsSessions ==
  [][ last'.op = "delete_project" =>
        db'.sessions =
          { IF s.project_id = last'.id THEN [s EXCEPT !.project_id = NULL]
            ELSE s : s \in db.sessions } ]_vars

-----------------------------------------------------------------------------
(* Properties of the handlers *)

SessionsOf(u, c) == {s \in db.sessions : s.user_id = u /\ s.chat_id = c}
MessagesOf(sid) == {m \in db.messages : m.session_id = sid}
\* the Messages turn t wrote: a text and a reply are those of one turn
TurnMessages(d, t) ==
  {m \in d.messages : m.content \in {user_input(t), reply_text(t)}}

\* C3: whatever the interleaving of the concurrent handle_message turns of
\* one (user, chat) that starts without a pointer, exactly one Session is
\* created for the pair and every one of the turns resolves to it.
C3_OneSessionForConcurrentTurns ==
  \A t \in Turns :
    turn[t].session_id # NULL =>
      /\ {s.id : s \in SessionsOf(turn[t].user_id, turn[t].chat_id)}
            = {turn[t].session_id}
      /\ \A t2 \in Turns :
            (/\ turn[t2].user_id = turn[t].user_id
             /\ turn[t2].chat_id = turn[t].chat_id
             /\ turn[t2].session_id # NULL)
            => turn[t2].session_id = turn[t].session_id

\* two turns of one pair, both suspended in generate_session_title, that
\* resolved to the one Session of the pair
C3_Witness ==
  /\ turn[1].pc = "titling"
  /\ turn[2].pc = "titling"
  /\ turn[1].user_id = turn[2].user_id
  /\ turn[1].chat_id = turn[2].chat_id
  /\ turn[1].session_id = turn[2].session_id
  /\ Cardinality(SessionsOf(turn[1].user_id, turn[1].chat_id)) = 1

\* C5: /delsession naming the Session that is active for the requesting
\* (user, chat) is rejected: no Session and no Message is deleted, the
\* pointer is unchanged and the reply is the rejection message.  (A command
\* step is one that leaves every turn where it is.)
C5_DelsessionActiveRejected ==
  [][ (/\ turn' = turn
       /\ last'.op = "delsession"
       /\ last'.id \in PointerIds(db, last'.user_id, last'.chat_id))
      => /\ db'.sessions = db.sessions
         /\ db'.messages = db.messages
         /\ db'.active_sessions = db.active_sessions
         /\ last'.reply = "Cannot delete active session" ]_vars

\* a rejected /delsession of an active Session that holds Messages
C5_Witness ==
  /\ last.op = "delsession"
  /\ last.id \in PointerIds(db, last.user_id, last.chat_id)
  /\ last.reply = "Cannot delete active session"
  /\ last.id \in SessionIds(db)
  /\ MessagesOf(last.id) # {}

\* C6: when a Session is deleted no Message with its session_id remains in
\* the Store, and the Messages of every other Session are untouched.
C6_DeleteSessionCascades ==
  [][ \A sid \in SessionIds(db) \ SessionIds(db') :
        db'.messages = {m \in db.messages : m.session_id # sid} ]_vars

\* C7: every Message is written for a Session that exists at the time of
\* the write, also when the Session of a turn in flight has been deleted by
\* another handler: a step adds no Message of a Session that does not exist.
C7_MessageWrittenForExistingSession ==
  [][ \A m \in db'.messages \ db.messages :
        m.session_id \in SessionIds(db) ]_vars

\* C9: when the model call of a turn raises, the turn ends with no Message
\* persisted for it, neither the user message nor a reply, and with the
\* error message that carries the failure description.
C9_ModelFailurePersistsNothing ==
  [][ \A t \in Turns :
        (turn[t].pc = "calling" /\ MsgModelRaises(t)) =>
           /\ TurnMessages(db', t) = {}
           /\ db'.messages = db.messages
           /\ turn'[t].pc = "failed"
           /\ turn'[t].error = "model call failed" ]_vars

\* a turn whose model call raised, in a Session that holds the Messages of
\* an earlier turn
C9_Witness ==
  \E t \in Turns :
    /\ turn[t].pc = "failed"
    /\ turn[t].error = "model call failed"
    /\ MessagesOf(turn[t].session_id) # {}
    /\ TurnMessages(db, t) = {}

\* C10: a failed turn leaves the Store as it was before the turn; from the
\* empty Store, when every turn that ran has failed or was dropped, the
\* Store is empty.
C10_FailedTurnLeavesStoreUnchanged ==
  (/\ \E t \in Turns : turn[t].pc = "failed"
   /\ \A t \in Turns : turn[t].pc \in {"idle", "dropped", "failed"})
  => db = EmptyDb

\* the messages of a Session, oldest first, as get_session_messages lists
\* them when the limit does not cut
AllMessages(d, sid) == get_session_messages(d, sid, Cardinality(d.messages))

\* C11: a successful turn has appended exactly two Messages to its Session,
\* the user message immediately followed by the assistant reply; whatever
\* the interleaving of the turns of a Session, no Message of another turn
\* lies between the two.
C11_TurnAppendsAdjacentPair ==
  \A t \in Turns :
    turn[t].pc = "done" =>
      LET all == AllMessages(db, turn[t].session_id)
      IN /\ Cardinality(TurnMessages(db, t)) = 2
         /\ \A m \in TurnMessages(db, t) : m.session_id = turn[t].session_id
         /\ \E i \in 1..(Len(all) - 1) :
               /\ all[i].role = "user"
               /\ all[i].content = user_input(t)
               /\ all[i + 1].role = "assistant"
               /\ all[i + 1].content = reply_text(t)
               /\ all[i + 1].id = all[i].id + 1

\* two successful turns that were in flight together in one Session
C11_Witness ==
  /\ turn[1].pc = "done"
  /\ turn[2].pc = "done"
  /\ turn[1].session_id = turn[2].session_id
  /\ Len(AllMessages(db, turn[1].session_id)) = 4
  /\ AllMessages(db, turn[1].session_id)[1].content = user_input(2)

\* C16: update_session_state(id, S) on an existing Session followed by
\* get_session(id) yields the state S, for every document S, the empty one
\* included; the state of a Session that is not updated reads back as it
\* was, and as the empty document when the Session is new.
C16_StateRoundTrip ==
  [][ /\ (last'.op = "update_session_state" /\ last'.id \in SessionIds(db))
         => get_session(db', last'.id).state = last'.arg[1]
      /\ \A sid \in SessionIds(db) :
            (last'.op = "update_session_state" => sid # last'.id)
            => get_session(db', sid).state = get_session(db, sid).state
      /\ \A sid \in SessionIds(db') \ SessionIds(db) :
            get_session(db', sid).state = PyDict(<<>>) ]_vars

\* a nested document written over another one and read back, beside a
\* Session that was never updated
C16_Witness ==
  /\ last.op = "update_session_state"
  /\ last.id \in SessionIds(db)
  /\ Len(last.arg[1][2]) = 2
  /\ get_session(db, last.id).state = last.arg[1]
  /\ \E sid \in SessionIds(db) :
        sid # last.id /\ get_session(db, sid).state = PyDict(<<>>)

\* C12: after a successful turn the state document of the Session is the
\* document the model returned when that document differs from the state
\* before the call: the state of a Session with a successful turn is the
\* document returned to one of its successful turns.
C12_StatePersistedAfterTurn ==
  \A t \in Turns :
    (turn[t].pc = "done" /\ turn[t].session_id \in SessionIds(db)) =>
      get_session(db, turn[t].session_id).state \in
        { updated_state(t2) :
            t2 \in {x \in Turns : /\ turn[x].pc = "done"
                                  /\ turn[x].session_id = turn[t].session_id} }

\* the ids of the Messages saved to a Session; AUTOINCREMENT hands them out
\* in the order of the save_message calls
SavedIds(d, sid) == {m.id : m \in {x \in d.messages : x.session_id = sid}}

\* C13: get_session_messages(id, limit = N) returns exactly the last
\* min(N, count) Messages saved to the Session, oldest first, in the order
\* they were saved.  (A read is a step that leaves the Store and the clock
\* as they are.)
C13_LastMessagesInSaveOrder ==
  [][ (last'.op = "get_session_messages" /\ UNCHANGED <<db, clock>>) =>
        LET ret   == last'.ret
            ids   == SavedIds(db, last'.id)
            N     == last'.arg[1]
            count == Cardinality(ids)
        IN /\ Len(ret) = IF N <= count THEN N ELSE count
           /\ \A i \in 1..Len(ret) : ret[i] \in db.messages
           /\ \A i \in 1..(Len(ret) - 1) : ret[i].id < ret[i + 1].id
           /\ \A i \in 1..Len(ret) :
                 /\ ret[i].id \in ids
                 /\ Cardinality({x \in ids : x > ret[i].id}) = Len(ret) - i
    ]_vars

\* a read that cuts: the Session holds more Messages than the limit of two,
\* not all saved at the same time
C13_Witness ==
  /\ last.op = "get_session_messages"
  /\ Cardinality(SavedIds(db, last.id)) > last.arg[1]
  /\ Len(last.ret) = 2
  /\ \E m \in db.messages : m.timestamp # last.ret[1].timestamp

\* C15: save_message with a role other than 'user' or 'assistant' raises
\* and changes nothing; with one of the two roles on an existing Session it
\* succeeds and stores exactly one Message.
C15_SaveMessageRole ==
  [][ last'.op = "save_message" =>
        LET role == last'.arg[1]
        IN /\ role \notin {"user", "assistant"} =>
                last'.raised /\ db' = db
           /\ (role \in {"user", "assistant"} /\ last'.id \in SessionIds(db))
              => /\ ~last'.raised
                 /\ Cardinality(db'.messages \ db.messages) = 1
                 /\ db.messages \subseteq db'.messages
                 /\ \A m \in db'.messages \ db.messages :
                       /\ m.id = last'.ret
                       /\ m.role = role
                       /\ m.session_id = last'.id ]_vars

\* a rejected save_message with role 'system' on a Session that holds a
\* Message
C15_Witness ==
  /\ last.op = "save_message"
  /\ last.arg = <<"system">>
  /\ last.raised
  /\ last.id \in SessionIds(db)
  /\ SavedIds(db, last.id) # {}

\* the timestamps of the user Messages of a Session
UserMessageTimes(d, sid) ==
  {m.timestamp : m \in {x \in d.messages :
                            x.session_id = sid /\ x.role = "user"}}

\* a Store without its assistant Messages
WithoutAssistant(d) ==
  [d EXCEPT !.messages = {m \in @ : m.role # "assistant"}]

\* C14: list_sessions(user, chat) returns the Sessions of (user, chat), each
\* once, ordered by the time of their latest user Message, descending, those
\* without a user Message last, ties broken by creation time, descending;
\* the assistant Messages do not influence the order.  (A read is a step
\* that leaves the Store and the clock as they are.)
C14_ListSessionsOrder ==
  [][ (last'.op = "list_sessions" /\ UNCHANGED <<db, clock>>) =>
        LET ret == last'.ret
            u   == last'.user_id
            c   == last'.chat_id
            T(i) == UserMessageTimes(db, ret[i].session.id)
        IN /\ {ret[i].session.id : i \in 1..Len(ret)} =
                {x.id : x \in SessionsOf(u, c)}
           /\ Len(ret) = Cardinality(SessionsOf(u, c))
           /\ \A i, j \in 1..Len(ret) :
                 i < j =>
                   /\ T(i) = {} => T(j) = {}
                   /\ T(j) # {} =>
                         \E x \in T(i) : \A y \in T(j) : y <= x
                   /\ (\/ T(i) = {} /\ T(j) = {}
                       \/ /\ T(i) # {}
                          /\ T(j) # {}
                          /\ \A x \in T(i) : \E y \in T(j) : x <= y)
                      => ret[i].session.created_at >= ret[j].session.created_at
           /\ [i \in 1..Len(ret) |-> ret[i].session.id] =
                [i \in 1..Len(ret) |->
                   list_sessions(WithoutAssistant(db), u, c)[i].session.id]
    ]_vars

\* a listing of two Sessions: the first has a user Message; the second was
\* created later and holds a later assistant Message, but no user Message
C14_Witness ==
  /\ last.op = "list_sessions"
  /\ Len(last.ret) = 2
  /\ {last.ret[1].session.id, last.ret[2].session.id} =
        {x.id : x \in SessionsOf(last.user_id, last.chat_id)}
  /\ UserMessageTimes(db, last.ret[1].session.id) # {}
  /\ UserMessageTimes(db, last.ret[2].session.id) = {}
  /\ last.ret[2].session.created_at > last.ret[1].session.created_at
  /\ \E m \in MessagesOf(last.ret[2].session.id) :
        /\ m.role = "assistant"
        /\ \A x \in UserMessageTimes(db, last.ret[1].session.id) :
              m.timestamp >= x
  /\ last.ret[2].message_count = 1

IsPrefix(a, b) == Len(a) <= Len(b) /\ SubSeq(b, 1, Len(a)) = a

-----------------------------------------------------------------------------
(* Properties of the task registry *)

\* the status changes run_background_task is meant to make
TaskTransitions ==
  { <<"pending", "running">>, <<"running", "done">>, <<"running", "failed">> }

\* C18: the statuses a registry entry takes form a prefix of pending,
\* running, then one of done or failed: an entry starts pending, every
\* change of its status is one of these transitions, and an entry whose
\* status is done or failed keeps its status and its output for ever.
C18_TaskStatusOrder ==
  [][ /\ \A k \in DOMAIN tasks' \ DOMAIN tasks :
            tasks'[k].status = "pending"
      /\ \A k \in DOMAIN tasks :
            /\ k \in DOMAIN tasks'
            /\ tasks'[k].status # tasks[k].status =>
                  <<tasks[k].status, tasks'[k].status>> \in TaskTransitions
            /\ tasks[k].status \in {"done", "failed"} =>
                  /\ tasks'[k].status = tasks[k].status
                  /\ tasks'[k].output = tasks[k].output ]_vars

\* the runs that are scheduled and have not yet written the outcome of their
\* command
Writers == {r \in BgRuns : bg[r].pc \in {"created", "running"}}

\* C19: a /bg request puts its Task, pending, under an identifier that is
\* no key of the registry yet, so no entry is overwritten, and no two
\* background runs write the same entry.
C19_FreshTaskId ==
  /\ [][ \A r \in BgRuns :
           (bg[r].pc = "idle" /\ bg'[r].pc = "replying") =>
              /\ bg'[r].task_id \notin DOMAIN tasks
              /\ tasks'[bg'[r].task_id].status = "pending" ]_vars
  /\ [](\A r, q \in Writers : r # q => bg[r].task_id # bg[q].task_id)

\* C20: every background run that /bg has started calls the notification
\* when its command completes, also when the command raised or timed out:
\* the call goes to the chat of the /bg request, its status word (Done or
\* Failed) is the terminal status the run has just recorded in the
\* registry, and its output is the recorded output cut to at most 3500
\* characters.
C20_RunNotifies ==
  /\ [][ \A r \in BgRuns :
           (bg[r].pc = "running" /\ bg'[r].pc # "running") =>
              LET n == bg'[r].notice
                  t == tasks'[bg[r].task_id]
              IN /\ n.sent
                 /\ n.chat_id = bg[r].chat_id
                 /\ \/ n.status = "Done" /\ t.status = "done"
                    \/ n.status = "Failed" /\ t.status = "failed"
                 /\ n.output.text = t.output.text
                 /\ n.output.len <= 3500
                 /\ n.output.len = t.output.len \/ t.output.len > 3500 ]_vars
  /\ \A r \in BgRuns : (bg[r].pc = "created") ~> bg[r].notice.sent

\* a run whose command raised has been notified as Failed, and a run with
\* more than 3500 characters of output as Done with the output cut
C20_Witness ==
  /\ \E r \in BgRuns :
        /\ bg[r].pc = "sending"
        /\ bg[r].notice.status = "Failed"
        /\ bg[r].notice.output.text = "Error: e"
        /\ tasks[bg[r].task_id].status = "failed"
  /\ \E r \in BgRuns :
        /\ bg[r].pc = "sending"
        /\ bg[r].notice.status = "Done"
        /\ bg[r].notice.output.len = 3500
        /\ tasks[bg[r].task_id].output.len > 3500

\* the runs that asyncio.create_task has scheduled and that have not ended
Running == {r \in BgRuns : bg[r].pc \in {"created", "running", "sending"}}

\* C21: a failure inside a background run is caught in run_background_task
\* and reaches neither handle_background nor the error handler: the handler
\* has returned when the run is scheduled, before the command has started,
\* no step of a run changes that, and the run goes on after it.
C21_RunFailureIsolated ==
  /\ [](\A r \in BgRuns :
          /\ r \in Running => bg[r].handler = "returned"
          /\ bg[r].logged => bg[r].handler = "returned")
  /\ [][ \A r \in BgRuns :
           /\ bg[r].handler = "returned" => bg'[r].handler = "returned"
           /\ (bg[r].handler = "awaiting" /\ bg'[r].handler = "returned") =>
                 bg'[r].pc = "created" /\ tasks' = tasks
           /\ (r \in Running /\ bg'[r].pc = "finished") =>
                 bg'[r].handler = "returned" ]_vars
  /\ [](\A r \in BgRuns : bg[r].pc \in {"created", "running"} =>
          ENABLED (BgRunStarts(r) \/ \E res \in RunResults : BgRunReturns(r, res)))

\* the handler of a run has returned while the command runs, and the
\* failure of the notification of another run has been caught and logged
C21_Witness ==
  /\ \E r \in BgRuns : bg[r].pc = "running" /\ bg[r].handler = "returned"
  /\ \E r \in BgRuns : bg[r].pc = "finished" /\ bg[r].logged
                         /\ bg[r].handler = "returned"

-----------------------------------------------------------------------------
(* Properties of the command executor *)

\* C22: a call whose subprocess has not finished within the timeout does
\* not wait any longer: at the timeout it can return whatever the
\* subprocess does, and a call returns ("Command timed out", False) only
\* then, at the timeout, with the subprocess killed if it was still running.
C22_TimeoutKillsAndReturns ==
  /\ [](\A i \in Calls :
          calls[i].pc = "communicating" =>
             /\ calls[i].elapsed <= calls[i].timeout
             /\ calls[i].elapsed = calls[i].timeout =>
                   ENABLED CallTimesOut(i))
  /\ [][ \A i \in Calls :
           (calls[i].pc # "returned" /\ calls'[i].pc = "returned"
              /\ calls'[i].result[1].text = "Command timed out") =>
                /\ calls[i].pc = "communicating"
                /\ calls[i].elapsed = calls[i].timeout
                /\ calls'[i].result = <<Str("Command timed out", 17), FALSE>>
                /\ calls'[i].proc # "running"
                /\ calls[i].proc = "running" => calls'[i].proc = "killed"
       ]_vars

\* a call has timed out with its subprocess killed, and another one after
\* its shell had exited with the pipes still open
C22_Witness ==
  /\ \E i \in Calls : /\ calls[i].pc = "returned"
                        /\ calls[i].result = TimedOut
                        /\ calls[i].proc = "killed"
  /\ \E i \in Calls : /\ calls[i].pc = "returned"
                        /\ calls[i].result = TimedOut
                        /\ calls[i].proc = "exited"

C24_ParallelResultsInOrder ==
  /\ [](par.pc = "returned" =>
          /\ Len(par.results) = Len(par.commands)
          /\ \A i \in 1..Len(par.commands) :
                /\ par.results[i][1] = par.commands[i]
                /\ calls[i].pc = "returned"
                /\ par.results[i][2] = calls[i].result[1]
                /\ par.results[i][3] = calls[i].result[2])
  /\ [][ par.pc = "gathering" =>
           \A i, j \in Calls :
              (i # j /\ calls'[i] # calls[i]) => calls'[j] = calls[j] ]_vars
  /\ [][ \A i \in Calls :
           calls[i].pc = "returned" => calls'[i] = calls[i] ]_vars

\* two commands: the first has timed out, the second has failed on its own
\* and is reported at its own index
C24_Witness ==
  /\ par.pc = "returned"
  /\ par.commands = <<"a", "b">>
  /\ par.results[1] = <<"a", Str("Command timed out", 17), FALSE>>
  /\ par.results[2] = <<"b", Str("err", 3), FALSE>>

-----------------------------------------------------------------------------
(* Properties of the handlers *)

\* C25: an update of a sender who is not in the allow-list gets no response
\* from any handler, neither a message nor a callback answer, and changes
\* neither the Store, the task registry nor a pending-input flag.
C25_UnauthorizedSilentDrop ==
  [][ /\ (turn' = turn /\ last'.op # "init"
             /\ last'.user_id \notin ALLOWED_USERS) =>
            /\ last'.reply = ""
            /\ ~last'.answered
            /\ UNCHANGED <<db, user_data, tasks, chunked>>
      /\ \A t \in Turns :
            (turn[t].pc = "idle" /\ turn'[t].pc # "idle"
               /\ turn'[t].user_id \notin ALLOWED_USERS) =>
                  /\ turn'[t].pc = "dropped"
                  /\ UNCHANGED <<db, user_data, tasks, chunked>> ]_vars

\* C26: create_session returns a new Session whose id is larger than every
\* id a Session has ever had, the deleted ones included; its state is the
\* empty document and its name the given one or the default made of the
\* time; no other Session, no Message and no active pointer changes.
C26_CreateSessionFresh ==
  /\ [](SessionIds(db) \subseteq 1..db.sqlite_sequence.sessions)
  /\ [][ /\ db'.sqlite_sequence.sessions >= db.sqlite_sequence.sessions
         /\ (last'.op = "create_session" /\ ~last'.raised
               /\ clock' = clock) =>
              LET new == get_session(db', last'.ret)
              IN /\ last'.ret > db.sqlite_sequence.sessions
                 /\ last'.ret \notin SessionIds(db)
                 /\ SessionIds(db') = SessionIds(db) \cup {last'.ret}
                 /\ new.state = PyDict(<<>>)
                 /\ new.user_id = last'.user_id
                 /\ new.chat_id = last'.chat_id
                 /\ new.name = IF last'.arg[1] = <<>>
                               THEN <<"Session", clock>> ELSE last'.arg[1]
                 /\ db.sessions \subseteq db'.sessions
                 /\ db'.messages = db.messages
                 /\ db'.active_sessions = db.active_sessions ]_vars

\* a Session created with the default name after the Session of the largest
\* id was deleted, beside a Message and an active pointer
C26_Witness ==
  /\ last.op = "create_session"
  /\ last.arg = << <<>> >>
  /\ last.ret = 2
  /\ SessionIds(db) = {2}
  /\ get_session(db, 2).name = <<"Session", clock>>
  /\ db.messages # {}
  /\ db.active_sessions # {}

-----------------------------------------------------------------------------
(* Properties of reply_text_chunked *)

RECURSIVE Concat(_)
\* the texts of a sequence of messages, one after the other
Concat(msgs) ==
  IF msgs = <<>> THEN <<>> ELSE Head(msgs).text \o Concat(Tail(msgs))

\* C27: reply_text_chunked sends the escaped reply as consecutive messages,
\* in order, each of at most chunk_size (3500 by default) characters: what
\* it has sent so far is always the beginning of the escaped text, and once
\* it returns, all of it; an empty reply is sent as the single message
\* "(empty)".
C27_ChunksAreTheEscapedReply ==
  /\ \A k \in 1..Len(chunked.sent) :
        chunked.text # <<>> =>
          /\ Len(chunked.sent[k].text) <= chunked.chunk_size
          /\ chunked.sent[k].parse_mode = "MarkdownV2"
  /\ chunked.text # <<>> =>
        IsPrefix(Concat(chunked.sent), escape_markdown_v2(chunked.text))
  /\ (chunked.pc = "returned" /\ chunked.text # <<>>) =>
        Concat(chunked.sent) = escape_markdown_v2(chunked.text)
  /\ (chunked.pc = "returned" /\ chunked.text = <<>>) =>
        chunked.sent = <<[text |-> EmptyReply, parse_mode |-> ""]>>
  /\ (chunked.pc = "returned" /\ chunked.chunk_size = DefaultChunkSize) =>
        Len(chunked.sent) = 1

\* a reply whose escaped text went out as three messages, the second one
\* starting in the middle of an escaped character
C27_Witness ==
  /\ chunked.pc = "returned"
  /\ chunked.text = <<"a", "_", "\\">>
  /\ chunked.chunk_size = 2
  /\ chunked.sent = <<[text |-> <<"a", "\\">>, parse_mode |-> "MarkdownV2"],
                      [text |-> <<"_", "\\">>, parse_mode |-> "MarkdownV2"],
                      [text |-> <<"\\">>, parse_mode |-> "MarkdownV2"]>>

-----------------------------------------------------------------------------
(* Progress of the background tasks *)

\* C28: under fair scheduling, with every run_command returning (its
\* subprocess exits or is cut by the timeout), every Task that /bg put in
\* the registry eventually has the status done or failed: none stays
\* pending or running forever.
C28_TaskEventuallyEnds ==
  \A id \in TaskIds :
    (id \in DOMAIN tasks)
      ~> (id \in DOMAIN tasks /\ tasks[id].status \in {"done", "failed"})

\* C29: in any interleaving of background runs, a step of one run
\* (run_background_task marking its Task running, or writing its result)
\* changes no registry entry but the one of its own task id: the status
\* and the output of every other entry stay as they were; and no step at
\* all removes an entry from the registry.
C29_RunWritesOwnEntryOnly ==
  [][ /\ DOMAIN tasks \subseteq DOMAIN tasks'
      /\ \A r \in BgRuns :
            (bg[r].pc \in {"created", "running", "sending"}
               /\ bg'[r] # bg[r]) =>
              \A id \in DOMAIN tasks :
                 id # bg[r].task_id => tasks'[id] = tasks[id] ]_vars

\* a run that was started while the Task of a finished run, under another
\* id, is in the registry with its result
C29_Witness ==
  /\ DOMAIN tasks = {1, 2}
  /\ tasks[1].status = "failed"
  /\ tasks[1].output = Str("Command timed out", 17)
  /\ bg[2].pc = "running" /\ bg[2].task_id = 2
  /\ tasks[2].status = "running"

-----------------------------------------------------------------------------
(* The model call of a turn *)

\* C30: the model call of a turn is given the window of the last 20
\* Messages of the Session the turn resolved, oldest first, and the current
\* state document of that Session.
C30_ModelCallGetsWindowAndState ==
  [][ \A t \in Turns :
        (turn[t].pc # "calling" /\ turn'[t].pc = "calling") =>
          LET arguments == llm_reply_arguments(db', turn'[t], t)
              sid == turn'[t].session_id
          IN /\ "past_messages" \in DOMAIN arguments
             /\ arguments.past_messages =
                   get_session_messages(db', sid, HistoryLimit)
             /\ "session_state" \in DOMAIN arguments
             /\ arguments.session_state = get_session(db', sid).state ]_vars

-----------------------------------------------------------------------------
(* Command mode *)

\* C31: a text message that begins with run: or cmd: is handled in command
\* mode: no Session is resolved or created for it and no Message is
\* persisted for it.
C31_CommandModeBypassesStore ==
  \A t \in Turns :
    Prefix(t) \in {"run:", "cmd:"} =>
      /\ turn[t].session_id = NULL
      /\ TurnMessages(db, t) = {}

\* C32: the output run_command returns is the combined standard output and
\* standard error of the subprocess: when the command has written to both,
\* text of both is in the output, which is then at least as long as the
\* two texts together (the texts "out" and "err" cannot overlap).
C32_OutputCombinesBothStreams ==
  [][ \A i \in Calls, stdout \in Stdouts, stderr \in Stderrs,
         returncode \in ReturnCodes :
        (/\ ProcExits(i, stdout, stderr, returncode)
         /\ stdout.valid /\ stdout.str.len > 0
         /\ stderr.valid /\ stderr.str.len > 0) =>
          /\ calls'[i].result[1].text \notin {stdout.str.text, stderr.str.text}
          /\ calls'[i].result[1].len >= stdout.str.len + stderr.str.len ]_vars

-----------------------------------------------------------------------------
(* Timestamps of a Session *)

\* C33: every Store write to a Session (rename_session,
\* update_session_state, save_message into it) sets its updated_at to the
\* time of the write; so updated_at never decreases and is never earlier
\* than created_at, and created_at never changes.
C33_UpdatedAtFollowsWrites ==
  /\ [](\A s \in db.sessions : s.created_at <= s.updated_at)
  /\ [][ \A s \in db.sessions, s2 \in db'.sessions :
            s2.id = s.id =>
              /\ s2.created_at = s.created_at
              /\ s2.updated_at >= s.updated_at ]_vars
  /\ [][ (/\ clock' = clock
          /\ last'.op \in {"rename_session", "update_session_state",
                           "save_message"}
          /\ ~last'.raised
          /\ last'.id \in SessionIds(db)) =>
            (CHOOSE s \in db'.sessions : s.id = last'.id).updated_at
              = clock ]_vars

\* a Session created at time 0 and renamed at time 1
C33_Witness ==
  /\ last.op = "rename_session"
  /\ \E s \in db.sessions :
        /\ s.id = last.id
        /\ s.name = last.arg[1]
        /\ s.created_at = 0 /\ s.updated_at = 1

-----------------------------------------------------------------------------
(* /newsession and the project-choice buttons *)

\* the step created exactly one Session, for (u, c), made it the active
\* Session of (u, c) and kept every Session there was
CreatedAndActivated(u, c, id) ==
  /\ id \notin SessionIds(db)
  /\ SessionIds(db') = SessionIds(db) \cup {id}
  /\ OwnedBy(db', id, u, c)
  /\ PointerIds(db', u, c) = {id}
  /\ db.sessions \subseteq db'.sessions

-----------------------------------------------------------------------------
(* The /renamesession dialogue *)

-----------------------------------------------------------------------------
(* The active pointers under the handlers *)

\* C36: in every state reached through the handlers (text messages,
\* /newsession, /switch, /delsession and the inline buttons, in any
\* order), each active-session pointer refers to a Session that exists and
\* is owned by the pointer's own (user, chat).
C36_PointersReferToOwnedSessions ==
  \A a \in db.active_sessions :
     OwnedBy(db, a.session_id, a.user_id, a.chat_id)

\* the Session a text message created was deleted after a button had made
\* another one active
C36_Witness ==
  /\ turn[1].pc = "done" /\ turn[1].session_id = 1
  /\ 1 \notin SessionIds(db)
  /\ PointerIds(db, turn[1].user_id, turn[1].chat_id) = {2}
  /\ get_session(db, 2).project_id = 1

-----------------------------------------------------------------------------
(* The Session of a turn *)

\* C37: the two Messages of a turn are written to the Session that the
\* turn resolved as the active one when it began, also when another handler
\* changes the active pointer of (user, chat) while the model call is in
\* flight: the Session of a turn is the active one when it is resolved, it
\* never changes afterwards, and the Messages of the turn are in it.
C37_TurnWritesToResolvedSession ==
  /\ [][ \A t \in Turns :
            /\ (turn[t].pc = "resolving" /\ turn'[t].pc # "resolving") =>
                  PointerIds(db', turn[t].user_id, turn[t].chat_id)
                    = {turn'[t].session_id}
            /\ turn[t].pc \in {"loading", "titling", "calling"} =>
                  turn'[t].session_id = turn[t].session_id ]_vars
  /\ [](\A t \in Turns :
          /\ \A m \in TurnMessages(db, t) :
                m.session_id = turn[t].session_id
          /\ (turn[t].pc = "done"
                 /\ turn[t].session_id \in SessionIds(db)) =>
                {m.role : m \in TurnMessages(db, t)} = {"user", "assistant"})

\* a turn that saved its Messages to Session 1 after /newsession had made
\* Session 2 the active one
C37_Witness ==
  /\ turn[1].pc = "done"
  /\ turn[1].session_id = 1
  /\ {m.session_id : m \in TurnMessages(db, 1)} = {1}
  /\ Cardinality(TurnMessages(db, 1)) = 2
  /\ PointerIds(db, turn[1].user_id, turn[1].chat_id) = {2}
  /\ MessagesOf(2) = {}

-----------------------------------------------------------------------------
(* Isolation of the (user, chat) pairs *)

\* the Sessions of d that are not owned by (u, c), and their Messages
Foreign(d, u, c) ==
  {s \in d.sessions : ~(s.user_id = u /\ s.chat_id = c)}
ForeignMessages(d, u, c) ==
  {m \in d.messages :
     \E s \in Foreign(d, u, c) : s.id = m.session_id}

\* a step of a handler invoked by (u, c) leaves the Sessions of the other
\* pairs, their Messages and the pointers of the other pairs as they are,
\* and does not make a Session of another pair the active one of (u, c)
Isolated(u, c) ==
  /\ Foreign(db', u, c) = Foreign(db, u, c)
  /\ ForeignMessages(db', u, c) = ForeignMessages(db, u, c)
  /\ \A a \in db.active_sessions \cup db'.active_sessions :
        ~(a.user_id = u /\ a.chat_id = c) =>
          a \in db.active_sessions \cap db'.active_sessions
  /\ \A a \in db'.active_sessions :
        (a.user_id = u /\ a.chat_id = c /\ a \notin db.active_sessions) =>
          \A s \in Foreign(db', u, c) : s.id # a.session_id

\* C38: no handler invoked by (user u, chat c) makes active, renames,
\* deletes, lists or writes Messages into a Session whose (user_id,
\* chat_id) differs from (u, c), whatever session id comes with the
\* command, the button or the pending-rename flag.
C38_HandlersTouchOwnSessionsOnly ==
  /\ [](\A p \in Pairs :
          LET listed == list_sessions(db, p[1], p[2])
          IN \A i \in 1..Len(listed) :
                /\ listed[i].session.user_id = p[1]
                /\ listed[i].session.chat_id = p[2])
  /\ [][ turn' = turn => Isolated(last'.user_id, last'.chat_id) ]_vars
  /\ [][ \A t \in Turns :
            turn'[t] # turn[t] =>
              Isolated(turn'[t].user_id, turn'[t].chat_id) ]_vars

\* chat 2 asked for the Session of chat 1 by its id and was refused, with a
\* rename of chat 1 pending and a Session of its own
C38_Witness ==
  /\ last.op \in {"switch", "session_switch", "delsession"}
  /\ last.chat_id = 2
  /\ last.reply = "Session not found"
  /\ \E s \in db.sessions : s.id = last.id /\ s.chat_id = 1
  /\ \E s \in db.sessions : s.chat_id = 2
  /\ user_data[1].awaiting_rename = last.id

-----------------------------------------------------------------------------
(* The Project of a Session *)

\* C39: every Session created with a project_id references, at the moment
\* it is created, a Project that exists and is owned by the (user, chat) of
\* the Session, also when the project-choice button is pressed after the
\* Project was deleted or carries the project id of another pair.
C39_NewSessionReferencesOwnProject ==
  [][ \A s \in db'.sessions :
        (s.id \notin SessionIds(db) /\ s.project_id # NULL) =>
          \E p \in db.projects :
             /\ p.id = s.project_id
             /\ p.user_id = s.user_id
             /\ p.chat_id = s.chat_id ]_vars

-----------------------------------------------------------------------------
(* The generated title *)

\* C40: a Session is auto-titled at most once: a turn renames its Session
\* to a generated title only when the Session has no generated title yet,
\* also when another first message is handled at the same time or when
\* the first turn failed.
C40_TitledAtMostOnce ==
  [][ \A t \in Turns :
        (turn[t].pc = "titling" /\ turn'[t].pc = "calling") =>
          get_session(db, turn[t].session_id).name
            \notin {new_title(t2) : t2 \in Turns} ]_vars

====
